---- MODULE Spec2Model ----
(***************************************************************************)
(* PureWin: the safe-deletion core.  PathGuard (ValidatePath, IsSafePath), *)
(* the Executor (SafeDelete, SafeDeleteWithWhitelist), the clean command's *)
(* scan / preview / execute flow and the read-write locked whitelist.      *)
(*                                                                         *)
(* Strings are sequences of one-character strings, so that prefix tests,   *)
(* case folding, separator handling and length checks are computed the way *)
(* the Go code computes them.                                              *)
(***************************************************************************)
EXTENDS Integers, Sequences, FiniteSets, TLC

VARIABLES
    gPhase,     \* PathGuard harness: "in" (input drawn) or "out" (guard applied)
    gPath,      \* the path handed to IsSafePath / ValidatePath
    gSafe,      \* IsSafePath's answer ("unset" before the call)
    gErr,       \* ValidatePath's answer ("unset" before the call, "nil" = accepted)
    files,      \* the filesystem: the ids of the objects that exist
    xCall,      \* the Executor's last call: its arguments, its answer, what it touched
    env,        \* the process environment: elevation, %TEMP%, the whitelist, the recycle bin
    run,        \* the command under way: its position and its locals
    drc,        \* the DryRunContext filled by the last preview, and the filesystem it saw
    calls,      \* every removal made by a command so far, with the route it took
    w,          \* the shared Whitelist: the header of its patterns slice and its mutex
    heap,       \* the backing arrays of slices, by the allocation that made them
    proc,       \* the goroutines calling the Whitelist: position, locals, result
    hist,       \* the pattern list as it stood at the start and after each whole mutation
    sa,         \* one call of ScanAll: its arguments, loop index, WaitGroup, mutex, results
    worker,     \* the goroutines ScanAll started, one per target: position and locals
    dctx,       \* a DryRunContext shared by goroutines: its Items and its mutex
    adder,      \* the goroutines calling DryRunContext.Add: position, arguments, locals
    store,      \* a Whitelist used by one caller: the file, the patterns, the last call
    am,         \* the analyzer's AnalyzeModel, the deletions in flight, the deletions asked for
    sm          \* the SelectorModel

guardVars == <<gPhase, gPath, gSafe, gErr>>
execVars == <<files, xCall>>
cleanVars == <<env, run, drc, calls>>
wlVars == <<w, heap, proc, hist>>
scanVars == <<sa, worker>>
\* the variables of the parts modelled after the whitelist
ledgerVars == <<dctx, adder>>
storeVars == <<store>>
uiVars == <<am, sm>>
moreVars == <<scanVars, ledgerVars, storeVars, uiVars>>

vars == <<gPhase, gPath, gSafe, gErr, files, xCall, env, run, drc, calls, w, heap, proc, hist,
          sa, worker, dctx, adder, store, am, sm>>

(***************************************************************************)
(* Bounds of the model.                                                    *)
(***************************************************************************)
\* depth of the paths nested under a NEVER_DELETE entry that are tried
MaxDepth == 2
\* symbolic links followed while resolving one path
MaxLinkHops == 2
\* removals the environment lets fail (locked file) within one command
MaxFailures == 1
\* commands that really delete, in one behaviour (previews are not counted)
MaxRealRuns == 1
\* calls each goroutine makes on the shared whitelist
MaxCalls == 1

(***************************************************************************)
(* Characters and strings.                                                 *)
(***************************************************************************)
BS == "\\"
Slash == "/"
Colon == ":"

\* the lower-case and upper-case forms of the letters
LowerOf ==
    [A |-> "a", B |-> "b", C |-> "c", D |-> "d", E |-> "e", F |-> "f", G |-> "g",
     H |-> "h", I |-> "i", J |-> "j", K |-> "k", L |-> "l", M |-> "m", N |-> "n",
     O |-> "o", P |-> "p", Q |-> "q", R |-> "r", S |-> "s", T |-> "t", U |-> "u",
     V |-> "v", W |-> "w", X |-> "x", Y |-> "y", Z |-> "z"]
UpperOf ==
    [a |-> "A", b |-> "B", c |-> "C", d |-> "D", e |-> "E", f |-> "F", g |-> "G",
     h |-> "H", i |-> "I", j |-> "J", k |-> "K", l |-> "L", m |-> "M", n |-> "N",
     o |-> "O", p |-> "P", q |-> "Q", r |-> "R", s |-> "S", t |-> "T", u |-> "U",
     v |-> "V", w |-> "W", x |-> "X", y |-> "Y", z |-> "Z"]
UpperLetters == DOMAIN LowerOf
LowerLetters == DOMAIN UpperOf

\* unicode.ToLower / unicode.ToUpper on one character
LowerCh(c) == IF c \in UpperLetters THEN LowerOf[c] ELSE c
UpperCh(c) == IF c \in LowerLetters THEN UpperOf[c] ELSE c

\* unicode.IsLetter
IsLetter(c) == c \in UpperLetters \/ c \in LowerLetters

\* unicode.IsControl: the C0 control characters of the model's alphabet
IsControl(c) == c \in {"\n", "\r", "\t", "\f"}

\* unicode.IsSpace, as strings.TrimSpace uses it
IsSpace(c) == c \in {" ", "\t", "\n", "\r", "\f"}

\* strings.ToLower / strings.ToUpper
ToLower(s) == [i \in 1..Len(s) |-> LowerCh(s[i])]
ToUpper(s) == [i \in 1..Len(s) |-> UpperCh(s[i])]

\* strings.EqualFold
EqualFold(a, b) == ToLower(a) = ToLower(b)

\* strings.HasPrefix
HasPrefix(s, prefix) ==
    /\ Len(prefix) <= Len(s)
    /\ SubSeq(s, 1, Len(prefix)) = prefix

\* strings.TrimSpace(s) == ""
IsBlank(s) == \A i \in 1..Len(s) : IsSpace(s[i])

\* strings.Split(s, sep) for a one-character separator
RECURSIVE SplitFrom(_, _, _, _, _)
SplitFrom(s, sep, i, cur, acc) ==
    IF i > Len(s) THEN Append(acc, cur)
    ELSE IF s[i] = sep THEN SplitFrom(s, sep, i + 1, <<>>, Append(acc, cur))
    ELSE SplitFrom(s, sep, i + 1, Append(cur, s[i]), acc)

Split(s, sep) == SplitFrom(s, sep, 1, <<>>, <<>>)

\* strings.Join(parts, sep)
RECURSIVE Join(_, _)
Join(parts, sep) ==
    IF parts = <<>> THEN <<>>
    ELSE IF Len(parts) = 1 THEN parts[1]
    ELSE parts[1] \o <<sep>> \o Join(Tail(parts), sep)

(***************************************************************************)
(* path/filepath on Windows.                                               *)
(***************************************************************************)
\* os.PathSeparator
PathSeparator == BS

IsSlash(c) == c = BS \/ c = Slash

\* filepath.ToSlash / filepath.FromSlash
ToSlash(s) == [i \in 1..Len(s) |-> IF s[i] = BS THEN Slash ELSE s[i]]
FromSlash(s) == [i \in 1..Len(s) |-> IF s[i] = Slash THEN BS ELSE s[i]]

\* filepath.VolumeName's length, for drive-letter volumes ("C:")
volumeNameLen(path) ==
    IF Len(path) >= 2 /\ path[2] = Colon /\ IsLetter(path[1]) THEN 2 ELSE 0

\* filepath.IsAbs
IsAbs(path) ==
    LET l == volumeNameLen(path)
    IN  /\ l # 0
        /\ Len(path) > l
        /\ IsSlash(path[l + 1])

\* the element loop of filepath.Clean: drops empty and "." elements, lets ".."
\* remove the element before it, keeps a leading ".." of an unrooted path
RECURSIVE CleanElems(_, _, _)
CleanElems(elems, rooted, out) ==
    IF elems = <<>> THEN out
    ELSE LET e == Head(elems)
             rest == Tail(elems)
         IN  IF e = <<>> \/ e = <<".">> THEN CleanElems(rest, rooted, out)
             ELSE IF e = <<".", ".">>
                  THEN IF out # <<>> /\ out[Len(out)] # <<".", ".">>
                       THEN CleanElems(rest, rooted, SubSeq(out, 1, Len(out) - 1))
                       ELSE IF rooted THEN CleanElems(rest, rooted, out)
                       ELSE CleanElems(rest, rooted, Append(out, e))
                  ELSE CleanElems(rest, rooted, Append(out, e))

\* filepath.Clean
Clean(path) ==
    LET Build(vol, rooted, body) ==
            IF rooted THEN vol \o <<BS>> \o body
            ELSE IF body = <<>> THEN vol \o <<".">>
            ELSE vol \o body
        Rest(l, rest) ==
            IF rest = <<>> THEN path \o <<".">>
            ELSE Build(SubSeq(path, 1, l), IsSlash(rest[1]),
                       Join(CleanElems(Split(ToSlash(rest), Slash), IsSlash(rest[1]), <<>>), BS))
        Vol(l) == Rest(l, SubSeq(path, l + 1, Len(path)))
    IN  Vol(volumeNameLen(path))

(***************************************************************************)
(* Names used in paths.                                                    *)
(***************************************************************************)
Windows == <<"W", "i", "n", "d", "o", "w", "s">>
System32 == <<"S", "y", "s", "t", "e", "m", "3", "2">>
SysWOW64 == <<"S", "y", "s", "W", "O", "W", "6", "4">>
WinSxS == <<"W", "i", "n", "S", "x", "S">>
assembly == <<"a", "s", "s", "e", "m", "b", "l", "y">>
config == <<"c", "o", "n", "f", "i", "g">>
Boot == <<"B", "o", "o", "t">>
bootmgr == <<"b", "o", "o", "t", "m", "g", "r">>
EFI == <<"E", "F", "I">>
ProgramFiles == <<"P", "r", "o", "g", "r", "a", "m", " ", "F", "i", "l", "e", "s">>
ProgramFilesX86 == <<"P", "r", "o", "g", "r", "a", "m", " ", "F", "i", "l", "e", "s", " ", "(", "x", "8", "6", ")">>
Users == <<"U", "s", "e", "r", "s">>
ProgramData == <<"P", "r", "o", "g", "r", "a", "m", "D", "a", "t", "a">>
Recovery == <<"R", "e", "c", "o", "v", "e", "r", "y">>
Installer == <<"I", "n", "s", "t", "a", "l", "l", "e", "r">>
servicing == <<"s", "e", "r", "v", "i", "c", "i", "n", "g">>
Prefetch == <<"P", "r", "e", "f", "e", "t", "c", "h">>
WindowsOld == <<"W", "i", "n", "d", "o", "w", "s", ".", "o", "l", "d">>
Temp == <<"T", "e", "m", "p">>
nmSafe == <<"s", "a", "f", "e">>
nmSub == <<"s", "u", "b">>
nmA == <<"a", ".", "t", "m", "p">>
nmB == <<"b", ".", "t", "m", "p">>
nmK == <<"k", ".", "d", "l", "l">>
nmLnk == <<"l", "n", "k">>
nmJmp == <<"j", "m", "p">>
nmGone == <<"g", "o", "n", "e">>
nmMissing == <<"m", "i", "s", "s">>
nmX == <<"x">>
nmU == <<"u">>
nmDots == <<".", ".">>
nmCache == <<"c", "a", "c", "h", "e">>
nmC1 == <<"c", "1", ".", "t", "m", "p">>
nmC2 == <<"c", "2", ".", "t", "m", "p">>
nmC3 == <<"c", "3", ".", "t", "m", "p">>
nmC4 == <<"c", "4", ".", "t", "m", "p">>
nmC5 == <<"c", "5", ".", "t", "m", "p">>
nmIconCacheDb == <<"I", "c", "o", "n", "C", "a", "c", "h", "e", ".", "d", "b">>
nmGoMod == <<"g", "o", "m", "o", "d">>
nmZip == <<"m", ".", "z", "i", "p">>
nmOldSys == <<"o", "l", "d", ".", "s", "y", "s">>
nmWork == <<"w", "o", "r", "k">>
nmUsersBackup == <<"U", "s", "e", "r", "s", "B", "a", "c", "k", "u", "p">>
nmLk == <<"l", "k">>
nmDeep == <<"d", "e", "e", "p">>
nmHop == <<"h", "o", "p">>
nmMemoryDmp == <<"M", "E", "M", "O", "R", "Y", ".", "D", "M", "P">>
nmMinidump == <<"M", "i", "n", "i", "d", "u", "m", "p">>
nmM1 == <<"m", "1", ".", "d", "m", "p">>
nmSoftwareDistribution == <<"S", "o", "f", "t", "w", "a", "r", "e", "D", "i", "s", "t", "r", "i", "b", "u", "t", "i", "o", "n">>
nmDownload == <<"D", "o", "w", "n", "l", "o", "a", "d">>
nmCab == <<"u", ".", "c", "a", "b">>
nmF10 == <<"f", "1", "0", ".", "t", "m", "p">>
nmF20 == <<"f", "2", "0", ".", "t", "m", "p">>
nmF30 == <<"f", "3", "0", ".", "t", "m", "p">>

\* drive:\elem\elem...
OnDrive(drive, elems) == <<drive, Colon, BS>> \o Join(elems, BS)
OnC(elems) == OnDrive("C", elems)

\* config.GetNeverDeletePaths: the hardcoded NEVER_DELETE list
GetNeverDeletePaths ==
    << OnC(<<Windows>>),
       OnC(<<Windows, System32>>),
       OnC(<<Windows, SysWOW64>>),
       OnC(<<Windows, WinSxS>>),
       OnC(<<Windows, assembly>>),
       OnC(<<Windows, System32, config>>),
       OnC(<<Boot>>),
       OnC(<<bootmgr>>),
       OnC(<<EFI>>),
       OnC(<<ProgramFiles>>),
       OnC(<<ProgramFilesX86>>),
       OnC(<<Users>>),
       OnC(<<ProgramData>>),
       OnC(<<Recovery>>),
       OnC(<<Windows, Installer>>),
       OnC(<<Windows, servicing>>),
       OnC(<<Windows, Prefetch>>) >>

(***************************************************************************)
(* The filesystem.  Tree names every object the model knows, by id; the    *)
(* state variable files holds the ids of the objects that exist.  A link   *)
(* is a symbolic link (or junction) to the path in target.  Names are      *)
(* matched without regard to case, as NTFS matches them.                   *)
(***************************************************************************)
RootNode == "C:"

Obj(parent, name, kind, size, target) ==
    [parent |-> parent, name |-> name, kind |-> kind, size |-> size, target |-> target]

Tree ==
    [n \in {"win", "sys", "dll", "wtmp", "wt", "safe", "a", "sub", "b", "lnk", "jmp", "gone",
             "usr", "u", "utmp", "ut", "ico", "cache", "c1", "c2", "c3", "c4", "c5",
             "wold", "wo", "gomod", "gm", "work", "f10", "f20", "f30",
             "lk", "deep", "hop", "mdmp", "mini", "m1", "swd", "dl", "cab"} |->
        CASE n = "win"  -> Obj(RootNode, Windows, "dir", 0, <<>>)
          [] n = "sys"  -> Obj("win", System32, "dir", 0, <<>>)
          [] n = "dll"  -> Obj("sys", nmK, "file", 16, <<>>)
          [] n = "wtmp" -> Obj("win", Temp, "dir", 0, <<>>)
          [] n = "wt"   -> Obj("wtmp", nmX, "file", 8, <<>>)
          [] n = "safe" -> Obj(RootNode, nmSafe, "dir", 0, <<>>)
          [] n = "a"    -> Obj("safe", nmA, "file", 1, <<>>)
          [] n = "sub"  -> Obj("safe", nmSub, "dir", 0, <<>>)
          [] n = "b"    -> Obj("sub", nmB, "file", 2, <<>>)
          [] n = "lnk"  -> Obj("safe", nmLnk, "link", 0, OnC(<<Windows>>))
          [] n = "jmp"  -> Obj("safe", nmJmp, "link", 0, OnC(<<nmSafe, nmSub>>))
          [] n = "gone" -> Obj("safe", nmGone, "link", 0, OnC(<<nmSafe, nmMissing>>))
          [] n = "usr"  -> Obj(RootNode, Users, "dir", 0, <<>>)
          [] n = "u"    -> Obj("usr", nmU, "dir", 0, <<>>)
          [] n = "utmp" -> Obj("u", Temp, "dir", 0, <<>>)
          [] n = "ut"   -> Obj("utmp", nmA, "file", 4, <<>>)
          [] n = "ico"  -> Obj("u", nmIconCacheDb, "file", 32, <<>>)
          [] n = "cache" -> Obj(RootNode, nmCache, "dir", 0, <<>>)
          [] n = "c1"   -> Obj("cache", nmC1, "file", 1, <<>>)
          [] n = "c2"   -> Obj("cache", nmC2, "file", 2, <<>>)
          [] n = "c3"   -> Obj("cache", nmC3, "file", 4, <<>>)
          [] n = "c4"   -> Obj("cache", nmC4, "file", 8, <<>>)
          [] n = "c5"   -> Obj("cache", nmC5, "file", 16, <<>>)
          [] n = "wold" -> Obj(RootNode, WindowsOld, "dir", 0, <<>>)
          [] n = "wo"   -> Obj("wold", nmOldSys, "file", 64, <<>>)
          [] n = "gomod" -> Obj(RootNode, nmGoMod, "dir", 0, <<>>)
          [] n = "gm"   -> Obj("gomod", nmZip, "file", 128, <<>>)
          [] n = "work" -> Obj(RootNode, nmWork, "dir", 0, <<>>)
          [] n = "f10"  -> Obj("work", nmF10, "file", 10, <<>>)
          [] n = "f20"  -> Obj("work", nmF20, "file", 20, <<>>)
          [] n = "f30"  -> Obj("work", nmF30, "file", 30, <<>>)
          [] n = "lk"   -> Obj(RootNode, nmLk, "dir", 0, <<>>)
          [] n = "deep" -> Obj("lk", nmDeep, "link", 0, OnC(<<Windows, System32, nmK>>))
          [] n = "hop"  -> Obj("lk", nmHop, "link", 0, OnC(<<nmSafe, nmLnk>>))
          [] n = "mdmp" -> Obj("win", nmMemoryDmp, "file", 3, <<>>)
          [] n = "mini" -> Obj("win", nmMinidump, "dir", 0, <<>>)
          [] n = "m1"   -> Obj("mini", nmM1, "file", 5, <<>>)
          [] n = "swd"  -> Obj("win", nmSoftwareDistribution, "dir", 0, <<>>)
          [] n = "dl"   -> Obj("swd", nmDownload, "dir", 0, <<>>)
          [] n = "cab"  -> Obj("dl", nmCab, "file", 7, <<>>)]

Nodes == DOMAIN Tree

KindOf(n) == IF n = RootNode THEN "dir" ELSE Tree[n].kind

\* the objects of fs lying in the subtree of n (n included), links not followed
RECURSIVE Under(_, _)
Under(n, fs) ==
    IF n \notin fs THEN {}
    ELSE {n} \cup UNION {Under(c, fs) : c \in {m \in fs : Tree[m].parent = n}}

\* the path of an object, from the names on the way down from the root
RECURSIVE NodeElems(_)
NodeElems(n) == IF n = RootNode THEN <<>> ELSE Append(NodeElems(Tree[n].parent), Tree[n].name)
NodePath(n) == OnC(NodeElems(n))

\* the elements of a cleaned absolute path below its volume
ElemsOf(path) ==
    LET Below(rest) == IF rest = <<>> THEN <<>> ELSE Split(rest, BS)
        Of(c) == Below(SubSeq(c, 4, Len(c)))
    IN  Of(Clean(path))

\* The object a path names, "none" when there is none.  Links met on the
\* way are followed; a link in the last position only when followLast.
RECURSIVE Walk(_, _, _, _, _)
Walk(fs, cur, elems, followLast, hops) ==
    IF elems = <<>> THEN cur
    ELSE IF KindOf(cur) # "dir" THEN "none"
    ELSE LET From(t) ==
                 IF t = "none" THEN "none" ELSE Walk(fs, t, Tail(elems), followLast, hops)
             Step(k) ==
                 IF Tree[k].kind = "link" /\ (Len(elems) > 1 \/ followLast)
                 THEN IF hops = 0 THEN "none"
                      ELSE From(Walk(fs, RootNode, ElemsOf(Tree[k].target), TRUE, hops - 1))
                 ELSE From(k)
             Among(kids) ==
                 IF kids = {} THEN "none" ELSE Step(CHOOSE m \in kids : TRUE)
         IN  Among({m \in fs : Tree[m].parent = cur /\ EqualFold(Tree[m].name, Head(elems))})

Lookup(path, fs, followLast) ==
    IF ~IsAbs(path) \/ ~EqualFold(SubSeq(path, 1, 1), <<"C">>) THEN "none"
    ELSE Walk(fs, RootNode, ElemsOf(path), followLast, MaxLinkHops)

\* os.Lstat: the object itself, a link in the last position not followed
Lstat(path, fs) == Lookup(path, fs, FALSE)

\* filepath.EvalSymlinks: the path with every link resolved, "error" when
\* the path cannot be resolved
EvalSymlinks(path, fs) ==
    LET Resolved(n) == IF n = "none" THEN <<"error">> ELSE NodePath(n)
    IN  Resolved(Lookup(path, fs, TRUE))

(***************************************************************************)
(* PathGuard.                                                              *)
(***************************************************************************)
\* filepath.Clean of every entry of a list of paths
RECURSIVE CleanAll(_)
CleanAll(paths) ==
    IF paths = <<>> THEN <<>> ELSE <<Clean(Head(paths))>> \o CleanAll(Tail(paths))

\* filepath.Clean(protected), for each NEVER_DELETE entry in turn
NeverDeleteCleaned == CleanAll(GetNeverDeletePaths)

\* IsSafePath taking any path that begins with the characters of an entry
\* for a protected one
IsSafePath_BarePrefix(path) ==
    LET Safe(cleaned) ==
            \A i \in 1..Len(NeverDeleteCleaned) :
                /\ ~EqualFold(cleaned, NeverDeleteCleaned[i])
                /\ ~HasPrefix(ToLower(cleaned), ToLower(NeverDeleteCleaned[i]))
    IN  Safe(Clean(path))

\* IsSafePath with the nesting test comparing case-sensitively
IsSafePath_CaseSensitivePrefix(path) ==
    LET Safe(cleaned) ==
            \A i \in 1..Len(NeverDeleteCleaned) :
                /\ ~EqualFold(cleaned, NeverDeleteCleaned[i])
                /\ ~HasPrefix(cleaned \o <<PathSeparator>>,
                              NeverDeleteCleaned[i] \o <<PathSeparator>>)
    IN  Safe(Clean(path))

\* core.IsSafePath: TRUE when the path is NOT in the NEVER_DELETE list
IsSafePath(path) ==
    LET Safe(cleaned, candidate) ==
            \A i \in 1..Len(NeverDeleteCleaned) :
                /\ ~EqualFold(cleaned, NeverDeleteCleaned[i])
                /\ ~HasPrefix(candidate, ToLower(NeverDeleteCleaned[i] \o <<PathSeparator>>))
        Cleaned(cleaned) == Safe(cleaned, ToLower(cleaned) \o <<PathSeparator>>)
    IN  Cleaned(Clean(path))

\* ValidatePath letting a link through when it cannot be resolved
ValidatePath_FailOpen(path, fs) ==
    LET Link(resolved) ==
            IF resolved = <<"error">> THEN "nil"
            ELSE IF ~IsSafePath(resolved) THEN "symlink resolves to protected path"
            ELSE "nil"
        Checks(cleaned, parts, info) ==
            IF IsBlank(path) THEN "path is empty"
            ELSE IF ~IsAbs(path) THEN "path must be absolute"
            ELSE IF Len(cleaned) >= 2 /\ Len(cleaned) <= 3 /\ cleaned[2] = Colon /\ IsLetter(cleaned[1])
                 THEN "path is a drive root"
            ELSE IF \E i \in 1..Len(parts) : parts[i] = <<".", ".">>
                 THEN "path contains traversal component"
            ELSE IF \E i \in 1..Len(path) : IsControl(path[i]) /\ path[i] # "\t"
                 THEN "path contains control character"
            ELSE IF ~IsSafePath(path) THEN "path is protected and must NEVER be deleted"
            ELSE IF info # "none" /\ KindOf(info) = "link"
                 THEN Link(EvalSymlinks(path, fs))
            ELSE "nil"
    IN  Checks(Clean(path), Split(ToSlash(path), Slash), Lstat(path, fs))

\* ValidatePath looking the path up in NEVER_DELETE before it looks for
\* traversal components and control characters
ValidatePath_ProtectedFirst(path, fs) ==
    LET Link(resolved) ==
            IF resolved = <<"error">> THEN "cannot resolve symlink"
            ELSE IF ~IsSafePath(resolved) THEN "symlink resolves to protected path"
            ELSE "nil"
        Checks(cleaned, parts, info) ==
            IF IsBlank(path) THEN "path is empty"
            ELSE IF ~IsAbs(path) THEN "path must be absolute"
            ELSE IF Len(cleaned) >= 2 /\ Len(cleaned) <= 3 /\ cleaned[2] = Colon /\ IsLetter(cleaned[1])
                 THEN "path is a drive root"
            ELSE IF ~IsSafePath(path) THEN "path is protected and must NEVER be deleted"
            ELSE IF \E i \in 1..Len(parts) : parts[i] = <<".", ".">>
                 THEN "path contains traversal component"
            ELSE IF \E i \in 1..Len(path) : IsControl(path[i]) /\ path[i] # "\t"
                 THEN "path contains control character"
            ELSE IF info # "none" /\ KindOf(info) = "link"
                 THEN Link(EvalSymlinks(path, fs))
            ELSE "nil"
    IN  Checks(Clean(path), Split(ToSlash(path), Slash), Lstat(path, fs))

\* core.ValidatePath: "nil" when the path may be operated on, else the reason
ValidatePath(path, fs) ==
    LET Link(resolved) ==
            IF resolved = <<"error">> THEN "cannot resolve symlink"
            ELSE IF ~IsSafePath(resolved) THEN "symlink resolves to protected path"
            ELSE "nil"
        Checks(cleaned, parts, info) ==
            IF IsBlank(path) THEN "path is empty"
            ELSE IF ~IsAbs(path) THEN "path must be absolute"
            ELSE IF Len(cleaned) >= 2 /\ Len(cleaned) <= 3 /\ cleaned[2] = Colon /\ IsLetter(cleaned[1])
                 THEN "path is a drive root"
            ELSE IF \E i \in 1..Len(parts) : parts[i] = <<".", ".">>
                 THEN "path contains traversal component"
            ELSE IF \E i \in 1..Len(path) : IsControl(path[i]) /\ path[i] # "\t"
                 THEN "path contains control character"
            ELSE IF ~IsSafePath(path) THEN "path is protected and must NEVER be deleted"
            ELSE IF info # "none" /\ KindOf(info) = "link"
                 THEN Link(EvalSymlinks(path, fs))
            ELSE "nil"
    IN  Checks(Clean(path), Split(ToSlash(path), Slash), Lstat(path, fs))

\* ValidatePath's filesystem calls, were Lstat made before the pure checks
ValidatePathIO_LstatFirst(verr, info) ==
    IF verr \in {"cannot resolve symlink", "symlink resolves to protected path"}
    THEN <<"Lstat", "EvalSymlinks">>
    ELSE IF info # "none" /\ KindOf(info) = "link"
         THEN <<"Lstat", "EvalSymlinks">>
         ELSE <<"Lstat">>

\* the filesystem calls ValidatePath makes on the way to its answer verr,
\* info being what os.Lstat finds at the path: none when it rejects before
\* step 6, else Lstat and, for a link, EvalSymlinks
ValidatePathIO(verr, info) ==
    IF verr \in {"path is empty", "path must be absolute", "path is a drive root",
                 "path contains traversal component",
                 "path contains control character",
                 "path is protected and must NEVER be deleted"}
    THEN <<>>
    ELSE IF verr \in {"cannot resolve symlink", "symlink resolves to protected path"}
         THEN <<"Lstat", "EvalSymlinks">>
    ELSE IF info # "none" /\ KindOf(info) = "link"
         THEN <<"Lstat", "EvalSymlinks">>
         ELSE <<"Lstat">>

(***************************************************************************)
(* PathGuard harness: the guard applied to one path drawn from a bounded   *)
(* set, against the filesystem as it stands at the start.                  *)
(***************************************************************************)
InitFiles == Nodes

\* names appended below a NEVER_DELETE entry
NestNames == {nmX, Temp}

RECURSIVE NestSuffixes(_)
NestSuffixes(d) ==
    IF d = 0 THEN {<<>>}
    ELSE {<<>>} \cup {<<BS>> \o nm \o s : nm \in NestNames, s \in NestSuffixes(d - 1)}

\* alternating case, one of the "mixed" spellings
MixCase(s) == [i \in 1..Len(s) |-> IF i % 2 = 0 THEN UpperCh(s[i]) ELSE LowerCh(s[i])]

Spellings(s) == {s, ToLower(s), ToUpper(s), MixCase(s)}

\* relative\x and C:\a\..\..\b
pathRelativeX == <<"r", "e", "l", "a", "t", "i", "v", "e", BS, "x">>
pathTwiceUp == OnC(<< <<"a">>, nmDots, nmDots, <<"b">> >>)

\* every NEVER_DELETE entry and the paths nested under it, in every spelling
ProtectedInputs ==
    UNION {Spellings(GetNeverDeletePaths[i] \o suf) :
              i \in 1..Len(GetNeverDeletePaths), suf \in NestSuffixes(MaxDepth)}

OtherInputs ==
    { <<>>, <<" ", " ">>, <<"\t">>,
      nmSafe \o <<BS>> \o nmA, <<".">>, nmDots,
      <<"C", Colon, BS>>, <<"D", Colon, BS>>, <<"C", Colon>>, <<"c", Colon, BS>>,
      OnC(<<Users, nmDots, nmDots, Windows>>), OnC(<<nmSafe, nmDots, Windows>>),
      OnC(<<nmSafe>>) \o <<"\n">> \o nmA, OnC(<<nmSafe>>) \o <<"\t">> \o nmA,
      OnC(<<nmSafe, nmSub>>), OnC(<<nmSafe, nmA>>), OnDrive("D", <<nmSafe, nmA>>),
      OnC(<<WindowsOld>>), OnC(<<Users \o nmX>>), OnC(<<nmSafe>>) \o <<BS>>,
      <<"C", Colon, Slash>> \o nmSafe \o <<Slash>> \o nmA,
      OnC(<<nmSafe, nmLnk>>), OnC(<<nmSafe, nmJmp>>), OnC(<<nmSafe, nmGone>>),
      OnC(<<nmLk, nmDeep>>), OnC(<<nmLk, nmHop>>), OnC(<<nmLk>>),
      OnC(<<nmUsersBackup, nmX>>), OnC(<<WindowsOld, nmOldSys>>), ToLower(OnC(<<WindowsOld>>)),
      OnC(<<Boot \o nmX>>), OnC(<<ProgramFiles \o <<" ">> >>),
      OnC(<<nmSafe, nmLnk, System32, nmK>>), OnC(<<nmSafe, nmLnk, Temp>>),
      OnC(<<nmLk, nmHop, System32>>), OnC(<<nmSafe, nmJmp, nmB>>),
      pathRelativeX, pathTwiceUp, OnC(<<nmSafe, nmDots>>),
      OnC(<<Windows>>) \o <<"\n">>, nmDots \o <<"\n">>,
      OnC(<<nmSafe, nmLnk>>) \o <<BS>> \o nmDots \o <<BS>> \o nmLnk }

GuardInputs == ProtectedInputs \cup OtherInputs

NoCall == [op |-> "none", phase |-> "idle"]

GuardIdle ==
    /\ gPhase = "idle"
    /\ gPath = <<>>
    /\ gSafe = "unset"
    /\ gErr = "unset"

ExecIdle ==
    /\ files = InitFiles
    /\ xCall = NoCall

NoRun == [cmd |-> "none", pc |-> "idle", realRuns |-> 0, confirm |-> "unasked"]
NoLedger == [made |-> FALSE, flag |-> "none", fs |-> {}, entries |-> <<>>]

WlIdle ==
    /\ w = [patterns |-> [ptr |-> "none", len |-> 0, cap |-> 0],
            mu |-> [writer |-> "none", readers |-> {}]]
    /\ heap = <<>>
    /\ proc = <<>>
    /\ hist = <<>>

CleanIdle ==
    /\ env = [isAdmin |-> FALSE, temp |-> <<>>, wl |-> <<>>, recycleBin |-> 0,
              dryRunMode |-> FALSE]
    /\ run = NoRun
    /\ drc = NoLedger
    /\ calls = <<>>

NoScan == [pc |-> "idle"]

ScanIdle ==
    /\ sa = NoScan
    /\ worker = <<>>

LedgerIdle ==
    /\ dctx = [Items |-> <<>>, mu |-> "none"]
    /\ adder = <<>>

StoreIdle == store = [pc |-> "idle"]

AnalyzeIdle == am = [pc |-> "idle"]
SelectorIdle == sm = [pc |-> "idle"]
UiIdle == AnalyzeIdle /\ SelectorIdle

MoreIdle == ScanIdle /\ LedgerIdle /\ StoreIdle /\ UiIdle

GuardInit ==
    /\ gPhase = "in"
    /\ gPath \in GuardInputs
    /\ gSafe = "unset"
    /\ gErr = "unset"
    /\ ExecIdle
    /\ CleanIdle
    /\ WlIdle
    /\ MoreIdle

\* one call of IsSafePath and one of ValidatePath on the drawn path
ApplyGuard ==
    /\ gPhase = "in"
    /\ gPhase' = "out"
    /\ gSafe' = IsSafePath(gPath)
    /\ gErr' = ValidatePath(gPath, InitFiles)
    /\ UNCHANGED <<gPath, execVars, cleanVars, wlVars, moreVars>>

GuardNext == ApplyGuard

SpecGuard == GuardInit /\ [][GuardNext]_vars

\* C2: every NEVER_DELETE entry and every path nested under one, in any
\* spelling of upper and lower case, is rejected by ValidatePath and reported
\* as protected (not safe) by IsSafePath.
C2_ProtectedRejected ==
    (gPhase = "out" /\ gPath \in ProtectedInputs) => (gSafe = FALSE /\ gErr # "nil")

\* a nested, mixed-case path under a NEVER_DELETE entry has been through the guard
C2_Witness ==
    /\ gPhase = "out"
    /\ gPath = MixCase(OnC(<<Windows, System32, nmX, Temp>>))
    /\ gSafe = FALSE
    /\ gErr = "path is protected and must NEVER be deleted"

(***************************************************************************)
(* The Executor.                                                           *)
(***************************************************************************)
\* the size of a file, or the recursive size of a directory (core.GetDirSize)
RECURSIVE SumSizes(_)
SumSizes(ns) ==
    IF ns = {} THEN 0
    ELSE LET n == CHOOSE m \in ns : TRUE
         IN  (IF Tree[n].kind = "file" THEN Tree[n].size ELSE 0) + SumSizes(ns \ {n})

SizeOf(n, fs) == SumSizes(Under(n, fs))

Answer(bytes, err, reason, io, fs) ==
    [bytes |-> bytes, err |-> err, reason |-> reason, io |-> io, files |-> fs]

\* SafeDelete in dry-run mode going on to remove the path all the same
SafeDelete_DryRunRemoves(path, dryRun, fs, locked) ==
    LET Run(verr, vio, n) ==
            IF verr # "nil" THEN Answer(0, "DeletionBlocked", verr, vio, fs)
            ELSE IF n = "none" THEN Answer(0, "nil", "", vio \o <<"Lstat">>, fs)
            ELSE IF locked THEN Answer(0, "IOError", "", vio \o <<"Lstat", "Size", "Remove">>, fs)
            ELSE Answer(SizeOf(n, fs), "nil", "", vio \o <<"Lstat", "Size", "Remove">>, fs \ Under(n, fs))
        Guarded(verr, n) == Run(verr, ValidatePathIO(verr, n), n)
    IN  Guarded(ValidatePath(path, fs), Lstat(path, fs))

\* SafeDelete reporting a path that does not exist as an I/O error
SafeDelete_MissingIsError(path, dryRun, fs, locked) ==
    LET Run(verr, vio, n) ==
            IF verr # "nil" THEN Answer(0, "DeletionBlocked", verr, vio, fs)
            ELSE IF n = "none" THEN Answer(0, "IOError", "", vio \o <<"Lstat">>, fs)
            ELSE IF dryRun THEN Answer(SizeOf(n, fs), "nil", "", vio \o <<"Lstat", "Size">>, fs)
            ELSE IF locked THEN Answer(0, "IOError", "", vio \o <<"Lstat", "Size", "Remove">>, fs)
            ELSE Answer(SizeOf(n, fs), "nil", "", vio \o <<"Lstat", "Size", "Remove">>, fs \ Under(n, fs))
        Guarded(verr, n) == Run(verr, ValidatePathIO(verr, n), n)
    IN  Guarded(ValidatePath(path, fs), Lstat(path, fs))

\* SafeDelete removing a directory but not what lies beneath it
SafeDelete_TopOnly(path, dryRun, fs, locked) ==
    LET Run(verr, vio, n) ==
            IF verr # "nil" THEN Answer(0, "DeletionBlocked", verr, vio, fs)
            ELSE IF n = "none" THEN Answer(0, "nil", "", vio \o <<"Lstat">>, fs)
            ELSE IF dryRun THEN Answer(SizeOf(n, fs), "nil", "", vio \o <<"Lstat", "Size">>, fs)
            ELSE IF locked THEN Answer(0, "IOError", "", vio \o <<"Lstat", "Size", "Remove">>, fs)
            ELSE Answer(SizeOf(n, fs), "nil", "", vio \o <<"Lstat", "Size", "Remove">>, fs \ {n})
        Guarded(verr, n) == Run(verr, ValidatePathIO(verr, n), n)
    IN  Guarded(ValidatePath(path, fs), Lstat(path, fs))

\* SafeDelete answering (0, nil) for a path ValidatePath rejects
SafeDelete_RejectionAsNotFound(path, dryRun, fs, locked) ==
    LET Run(verr, vio, n) ==
            IF verr # "nil" THEN Answer(0, "nil", "", vio, fs)
            ELSE IF n = "none" THEN Answer(0, "nil", "", vio \o <<"Lstat">>, fs)
            ELSE IF dryRun THEN Answer(SizeOf(n, fs), "nil", "", vio \o <<"Lstat", "Size">>, fs)
            ELSE IF locked THEN Answer(0, "IOError", "", vio \o <<"Lstat", "Size", "Remove">>, fs)
            ELSE Answer(SizeOf(n, fs), "nil", "", vio \o <<"Lstat", "Size", "Remove">>, fs \ Under(n, fs))
        Guarded(verr, n) == Run(verr, ValidatePathIO(verr, n), n)
    IN  Guarded(ValidatePath(path, fs), Lstat(path, fs))

\* core.SafeDelete(path, dryRun): validate, answer 0 for a path that does
\* not exist, size it, stop there under dry-run, else remove it.  locked is
\* the environment's choice that the removal fails (locked file, permission).
SafeDelete(path, dryRun, fs, locked) ==
    LET Run(verr, vio, n) ==
            IF verr # "nil" THEN Answer(0, "DeletionBlocked", verr, vio, fs)
            ELSE IF n = "none" THEN Answer(0, "nil", "", vio \o <<"Lstat">>, fs)
            ELSE IF dryRun THEN Answer(SizeOf(n, fs), "nil", "", vio \o <<"Lstat", "Size">>, fs)
            ELSE IF locked THEN Answer(0, "IOError", "", vio \o <<"Lstat", "Size", "Remove">>, fs)
            ELSE Answer(SizeOf(n, fs), "nil", "", vio \o <<"Lstat", "Size", "Remove">>, fs \ Under(n, fs))
        Guarded(verr, n) == Run(verr, ValidatePathIO(verr, n), n)
    IN  Guarded(ValidatePath(path, fs), Lstat(path, fs))

\* SafeDeleteWithWhitelist consulting PathGuard first and the predicate after
SafeDeleteWithWhitelist_GuardFirst(path, dryRun, whitelisted, fs, locked) ==
    IF ValidatePath(path, fs) # "nil" THEN SafeDelete(path, dryRun, fs, locked)
    ELSE IF whitelisted THEN Answer(0, "WhitelistedPath", "", <<>>, fs)
    ELSE SafeDelete(path, dryRun, fs, locked)

\* core.SafeDeleteWithWhitelist(path, dryRun, isWhitelisted): the predicate
\* first, then SafeDelete.  whitelisted is the predicate's answer for path.
SafeDeleteWithWhitelist(path, dryRun, whitelisted, fs, locked) ==
    IF whitelisted THEN Answer(0, "WhitelistedPath", "", <<>>, fs)
    ELSE SafeDelete(path, dryRun, fs, locked)

\* the paths the Executor is called with
ExecPaths ==
    { OnC(<<nmSafe, nmA>>), OnC(<<nmSafe, nmSub>>), OnC(<<nmSafe, nmSub, nmB>>), OnC(<<nmSafe>>),
      ToUpper(OnC(<<nmSafe, nmA>>)),
      OnC(<<nmSafe, nmLnk>>), OnC(<<nmSafe, nmJmp>>), OnC(<<nmSafe, nmGone>>),
      OnC(<<nmSafe, nmJmp, nmB>>), OnC(<<nmSafe, nmLnk, System32, nmK>>),
      OnC(<<nmSafe, nmLnk, Temp>>),
      OnC(<<nmSafe, nmMissing>>), OnC(<<WindowsOld>>), OnDrive("D", <<nmSafe, nmA>>),
      OnC(<<Windows>>), ToLower(OnC(<<Windows, System32, nmK>>)), OnC(<<Windows, Temp, nmX>>),
      OnC(<<Users>>), OnC(<<ProgramFiles>>), OnC(<<ProgramData>>),
      <<>>, nmSafe \o <<BS>> \o nmA, <<"C", Colon, BS>>,
      OnC(<<nmSafe, nmDots, nmSafe, nmA>>), OnC(<<nmSafe>>) \o <<"\n">> \o nmA }

\* a caller hands the Executor a call: its entry point and its arguments
Request ==
    /\ xCall.phase \in {"idle", "returned"}
    /\ \E op \in {"SafeDelete", "SafeDeleteWithWhitelist"}, path \in ExecPaths,
          dryRun \in BOOLEAN, whitelisted \in BOOLEAN :
            /\ op = "SafeDelete" => ~whitelisted
            /\ xCall' = [op |-> op, phase |-> "called", path |-> path,
                         dryRun |-> dryRun, whitelisted |-> whitelisted]
    /\ UNCHANGED <<files, guardVars, cleanVars, wlVars, moreVars>>

Returned(ans, verr) ==
    [op |-> xCall.op, phase |-> "returned", path |-> xCall.path, dryRun |-> xCall.dryRun,
     whitelisted |-> xCall.whitelisted, verr |-> verr, before |-> files,
     bytes |-> ans.bytes, err |-> ans.err, reason |-> ans.reason, io |-> ans.io]

\* core.SafeDelete runs on the call's arguments
CallSafeDelete ==
    /\ xCall.op = "SafeDelete" /\ xCall.phase = "called"
    /\ \E locked \in BOOLEAN, verr \in {ValidatePath(xCall.path, files)} :
         \E ans \in {SafeDelete(xCall.path, xCall.dryRun, files, locked)} :
            /\ files' = ans.files
            /\ xCall' = Returned(ans, verr)
    /\ UNCHANGED <<guardVars, cleanVars, wlVars, moreVars>>

\* core.SafeDeleteWithWhitelist runs on the call's arguments
CallSafeDeleteWithWhitelist ==
    /\ xCall.op = "SafeDeleteWithWhitelist" /\ xCall.phase = "called"
    /\ \E locked \in BOOLEAN, verr \in {ValidatePath(xCall.path, files)} :
         \E ans \in {SafeDeleteWithWhitelist(xCall.path, xCall.dryRun, xCall.whitelisted, files, locked)} :
            /\ files' = ans.files
            /\ xCall' = Returned(ans, verr)
    /\ UNCHANGED <<guardVars, cleanVars, wlVars, moreVars>>

ExecInit == GuardIdle /\ ExecIdle /\ CleanIdle /\ WlIdle /\ MoreIdle

ExecNext == Request \/ CallSafeDelete \/ CallSafeDeleteWithWhitelist

SpecExec == ExecInit /\ [][ExecNext]_vars

\* an object whose own path equals, or lies under, a NEVER_DELETE entry
ProtectedNode(n) ==
    \E i \in 1..Len(GetNeverDeletePaths) :
        LET e == ElemsOf(GetNeverDeletePaths[i])
            p == NodeElems(n)
        IN  /\ Len(e) <= Len(p)
            /\ \A j \in 1..Len(e) : EqualFold(e[j], p[j])

Called == xCall.phase = "returned"

\* C1: over any sequence of SafeDelete and SafeDeleteWithWhitelist calls no
\* object at or under a NEVER_DELETE entry is ever removed.
C1_NeverDeleteIntact ==
    \A n \in InitFiles : ProtectedNode(n) => n \in files

\* C3: SafeDelete(p, dryRun = TRUE) on an existing path the guard accepts
\* answers the size of p and leaves every file and directory in place.
C3_DryRunKeepsFiles ==
    (Called /\ xCall.op = "SafeDelete" /\ xCall.dryRun /\ xCall.verr = "nil"
        /\ Lstat(xCall.path, xCall.before) # "none")
    => /\ xCall.err = "nil"
       /\ xCall.bytes = SizeOf(Lstat(xCall.path, xCall.before), xCall.before)
       /\ files = xCall.before

\* a dry run on an existing directory answered its recursive size
C3_Witness ==
    /\ Called /\ xCall.op = "SafeDelete" /\ xCall.dryRun
    /\ xCall.path = OnC(<<nmSafe>>)
    /\ xCall.bytes = 3
    /\ files = InitFiles

\* C4 as stated: a path ValidatePath rejects gets DeletionBlocked with the
\* guard's reason, and the call performs no filesystem I/O at all.
C4_RejectedNoIO ==
    (Called /\ xCall.op = "SafeDelete" /\ xCall.verr # "nil")
    => /\ xCall.err = "DeletionBlocked"
       /\ xCall.reason = xCall.verr
       /\ xCall.io = <<>>

\* C4, amended: a path ValidatePath rejects gets DeletionBlocked with the
\* guard's reason, never (0, nil); the filesystem is left as it was and the
\* only filesystem calls are the guard's own Lstat / EvalSymlinks of a link.
C4_RejectedBlocked ==
    (Called /\ xCall.op = "SafeDelete" /\ xCall.verr # "nil")
    => /\ xCall.err = "DeletionBlocked"
       /\ xCall.reason = xCall.verr
       /\ xCall.bytes = 0
       /\ files = xCall.before
       /\ xCall.io \in {<<>>, <<"Lstat", "EvalSymlinks">>}
       /\ (xCall.io # <<>> => KindOf(Lstat(xCall.path, xCall.before)) = "link")

\* a real (not dry-run) call on an existing protected directory was blocked
C4_Witness ==
    /\ Called /\ xCall.op = "SafeDelete" /\ ~xCall.dryRun
    /\ xCall.path = OnC(<<Windows>>)
    /\ xCall.err = "DeletionBlocked"
    /\ xCall.reason = "path is protected and must NEVER be deleted"

\* C9: when the predicate holds of p, SafeDeleteWithWhitelist answers
\* WhitelistedPath, whatever PathGuard would say, and removes nothing.
C9_WhitelistedFirst ==
    (Called /\ xCall.op = "SafeDeleteWithWhitelist" /\ xCall.whitelisted)
    => /\ xCall.err = "WhitelistedPath"
       /\ files = xCall.before
       /\ (Lstat(xCall.path, xCall.before) # "none" => Lstat(xCall.path, files) # "none")

\* a whitelisted path PathGuard would also reject was answered WhitelistedPath
C9_Witness ==
    /\ Called /\ xCall.op = "SafeDeleteWithWhitelist" /\ xCall.whitelisted /\ ~xCall.dryRun
    /\ xCall.path = OnC(<<Windows>>)
    /\ xCall.verr # "nil"
    /\ xCall.err = "WhitelistedPath"

(***************************************************************************)
(* Environment variables, glob patterns and the whitelist test.            *)
(***************************************************************************)
\* the characters of names, in byte order
AsciiOrder ==
    << " ", "$", "%", "(", ")", "*", ".",
       "0", "1", "2", "3", "4", "5", "6", "7", "8", "9", ":", "?",
       "A", "B", "C", "D", "E", "F", "G", "H", "I", "J", "K", "L", "M",
       "N", "O", "P", "Q", "R", "S", "T", "U", "V", "W", "X", "Y", "Z",
       "[", "\\", "_",
       "a", "b", "c", "d", "e", "f", "g", "h", "i", "j", "k", "l", "m",
       "n", "o", "p", "q", "r", "s", "t", "u", "v", "w", "x", "y", "z" >>

Ord(c) == CHOOSE i \in 1..Len(AsciiOrder) : AsciiOrder[i] = c

\* Go's a < b on strings
RECURSIVE StrLess(_, _)
StrLess(a, b) ==
    IF b = <<>> THEN FALSE
    ELSE IF a = <<>> THEN TRUE
    ELSE IF Head(a) = Head(b) THEN StrLess(Tail(a), Tail(b))
    ELSE Ord(Head(a)) < Ord(Head(b))

RECURSIVE Flatten(_)
Flatten(seqs) == IF seqs = <<>> THEN <<>> ELSE Head(seqs) \o Flatten(Tail(seqs))

\* a character of an environment variable's name
IsNameChar(c) == IsLetter(c) \/ c \in {"0", "1", "2", "3", "4", "5", "6", "7", "8", "9", "_"}

\* the length of the longest name starting at s[i]
RECURSIVE NameLen(_, _)
NameLen(s, i) == IF i <= Len(s) /\ IsNameChar(s[i]) THEN 1 + NameLen(s, i + 1) ELSE 0

\* os.Getenv, for the variables of the model
Getenv(name, e) ==
    IF name = <<"T", "E", "M", "P">> THEN e.temp
    ELSE IF name = <<"L", "O", "C", "A", "L", "A", "P", "P", "D", "A", "T", "A">>
         THEN OnC(<<Users, nmU>>)
    ELSE <<>>

\* os.ExpandEnv: every $NAME is replaced by the variable's value
RECURSIVE ExpandFrom(_, _, _)
ExpandFrom(s, i, e) ==
    IF i > Len(s) THEN <<>>
    ELSE IF s[i] = "$" /\ NameLen(s, i + 1) > 0
         THEN Getenv(SubSeq(s, i + 1, i + NameLen(s, i + 1)), e)
                  \o ExpandFrom(s, i + 1 + NameLen(s, i + 1), e)
    ELSE <<s[i]>> \o ExpandFrom(s, i + 1, e)

ExpandEnv(s, e) == ExpandFrom(s, 1, e)

\* envutil.ExpandWindowsEnv: %NAME% and $NAME are replaced by the
\* variable's value
RECURSIVE ExpandWindowsFrom(_, _, _)
ExpandWindowsFrom(s, i, e) ==
    IF i > Len(s) THEN <<>>
    ELSE IF s[i] = "%" /\ NameLen(s, i + 1) > 0 /\ i + 1 + NameLen(s, i + 1) <= Len(s)
            /\ s[i + 1 + NameLen(s, i + 1)] = "%"
         THEN Getenv(SubSeq(s, i + 1, i + NameLen(s, i + 1)), e)
                  \o ExpandWindowsFrom(s, i + 2 + NameLen(s, i + 1), e)
    ELSE IF s[i] = "$" /\ NameLen(s, i + 1) > 0
         THEN Getenv(SubSeq(s, i + 1, i + NameLen(s, i + 1)), e)
                  \o ExpandWindowsFrom(s, i + 1 + NameLen(s, i + 1), e)
    ELSE <<s[i]>> \o ExpandWindowsFrom(s, i + 1, e)

ExpandWindowsEnv(s, e) == ExpandWindowsFrom(s, 1, e)

\* strings.ContainsAny(s, "*?[")
hasMeta(s) == \E i \in 1..Len(s) : s[i] \in {"*", "?", "["}

\* filepath.Match for patterns of literals, * and ? (a character class is
\* outside the patterns of the model and matches nothing); neither * nor ?
\* matches the separator
RECURSIVE Match(_, _)
Match(pattern, name) ==
    IF pattern = <<>> THEN name = <<>>
    ELSE IF Head(pattern) = "*"
         THEN \/ Match(Tail(pattern), name)
              \/ (name # <<>> /\ Head(name) # PathSeparator /\ Match(pattern, Tail(name)))
    ELSE IF name = <<>> \/ Head(pattern) = "[" THEN FALSE
    ELSE IF Head(pattern) = "?"
         THEN Head(name) # PathSeparator /\ Match(Tail(pattern), Tail(name))
    ELSE Head(pattern) = Head(name) /\ Match(Tail(pattern), Tail(name))

\* the directory test made on the bare characters, with no separator added
PatternMatches_BarePrefix(expanded, cleaned) ==
    \/ EqualFold(cleaned, expanded)
    \/ Match(ToLower(expanded), ToLower(cleaned))
    \/ /\ ~hasMeta(expanded)
       /\ HasPrefix(ToLower(cleaned), ToLower(expanded))

\* one pattern of Whitelist.IsWhitelisted's loop, expanded and cleaned,
\* against the cleaned path: exact, glob, then directory prefix
PatternMatches(expanded, cleaned) ==
    \/ EqualFold(cleaned, expanded)
    \/ Match(ToLower(expanded), ToLower(cleaned))
    \/ /\ ~hasMeta(expanded)
       /\ HasPrefix(ToLower(cleaned) \o <<PathSeparator>>,
                    ToLower(expanded) \o <<PathSeparator>>)

\* Whitelist.IsWhitelisted on the pattern list it reads under its lock
IsWhitelisted(patterns, path, e) ==
    LET Some(cleaned) ==
            \E i \in 1..Len(patterns) :
                PatternMatches(Clean(ExpandWindowsEnv(patterns[i], e)), cleaned)
    IN  Some(Clean(path))

(***************************************************************************)
(* The scan engine.                                                        *)
(***************************************************************************)
\* the entries of a directory, sorted by name as os.ReadDir returns them
RECURSIVE SortNodes(_)
SortNodes(ns) ==
    IF ns = {} THEN <<>>
    ELSE LET First(m) == <<m>> \o SortNodes(ns \ {m})
         IN  First(CHOOSE m \in ns : \A o \in ns \ {m} : StrLess(Tree[m].name, Tree[o].name))

ReadDir(n, fs) == SortNodes({m \in fs : Tree[m].parent = n})

\* filepath.WalkDir below directory n reached as path: the entries that are
\* not directories, in lexical order; a link is an entry, never followed
RECURSIVE WalkEntries(_, _, _)
WalkEntries(kids, path, fs) ==
    IF kids = <<>> THEN <<>>
    ELSE LET Entry(k, p) ==
                 IF Tree[k].kind = "dir" THEN WalkEntries(ReadDir(k, fs), p, fs)
                 ELSE <<[Path |-> p, node |-> k]>>
         IN  Entry(Head(kids), path \o <<PathSeparator>> \o Tree[Head(kids)].name)
                 \o WalkEntries(Tail(kids), path, fs)

WalkDir(path, n, fs) == WalkEntries(ReadDir(n, fs), path, fs)

CleanItem(path, n, category) ==
    [Path |-> path, Size |-> Tree[n].size, Category |-> category]

scanDirectory_NoWhitelist(dir, n, category, wl, fs, e) ==
    LET Items(entries) ==
            [i \in 1..Len(entries) |-> CleanItem(entries[i].Path, entries[i].node, category)]
    IN  Items(WalkDir(dir, n, fs))

\* clean.scanDirectory: one CleanItem per entry that is not a directory and
\* is not whitelisted
scanDirectory(dir, n, category, wl, fs, e) ==
    LET Keep(entry) == ~IsWhitelisted(wl, entry.Path, e)
        Items(entries) ==
            [i \in 1..Len(entries) |-> CleanItem(entries[i].Path, entries[i].node, category)]
    IN  Items(SelectSeq(WalkDir(dir, n, fs), Keep))

\* the last separator of a pattern splits it into directory and file part
LastSep(s) == IF \E i \in 1..Len(s) : s[i] = PathSeparator
              THEN CHOOSE i \in 1..Len(s) :
                       s[i] = PathSeparator /\ \A j \in (i + 1)..Len(s) : s[j] # PathSeparator
              ELSE 0

\* filepath.Glob: a pattern without metacharacters names itself when it
\* exists; one with metacharacters in its last element lists the directory
\* and keeps the names that match (metacharacters in the directory part are
\* outside the patterns of the model)
Glob(pattern, fs) ==
    LET Names(dir, file, d) ==
            IF d = "none" \/ KindOf(d) # "dir" THEN <<>>
            ELSE LET Hit(k) == Match(file, Tree[k].name)
                     Paths(ks) == [i \in 1..Len(ks) |-> dir \o <<PathSeparator>> \o Tree[ks[i]].name]
                 IN  Paths(SelectSeq(ReadDir(d, fs), Hit))
        Split2(dir, file) ==
            IF hasMeta(dir) THEN <<>> ELSE Names(dir, file, Lookup(dir, fs, TRUE))
        At(i) == Split2(SubSeq(pattern, 1, i - 1), SubSeq(pattern, i + 1, Len(pattern)))
    IN  IF ~hasMeta(pattern)
        THEN IF Lstat(pattern, fs) = "none" THEN <<>> ELSE <<pattern>>
        ELSE At(LastSep(pattern))

\* target names, and the ledger's names for what is not a path
nmUserTemp == <<"U", "s", "e", "r", "T", "e", "m", "p">>
nmSystemTemp == <<"S", "y", "s", "t", "e", "m", "T", "e", "m", "p">>
nmWindowsOldTarget == <<"W", "i", "n", "d", "o", "w", "s", "O", "l", "d">>
nmRecycleBin == <<"R", "e", "c", "y", "c", "l", "e", "B", "i", "n">>
nmRecycleBinShell == nmRecycleBin \o <<" ", "(", "S", "h", "e", "l", "l", ")">>
nmGoModuleCache == <<"G", "o", " ", "m", "o", "d", "u", "l", "e", " ", "c", "a", "c", "h", "e">>
varTEMP == <<"$", "T", "E", "M", "P">>
varLOCALAPPDATA == <<"L", "O", "C", "A", "L", "A", "P", "P", "D", "A", "T", "A">>

CleanTarget(name, paths, requiresAdmin, category) ==
    [Name |-> name, Paths |-> paths, RequiresAdmin |-> requiresAdmin, Category |-> category]

\* config.GetCleanTargets: the user and system temp targets, Windows.old
\* and the recycle bin
GetCleanTargets(e) ==
    << CleanTarget(nmUserTemp,
                   << ExpandWindowsEnv(varTEMP, e),
                      Clean(Join(<<Getenv(varLOCALAPPDATA, e), Temp>>, PathSeparator)) >>,
                   FALSE, "user"),
       CleanTarget(nmSystemTemp, <<OnC(<<Windows, Temp>>)>>, TRUE, "system"),
       CleanTarget(nmWindowsOldTarget, <<OnC(<<WindowsOld>>)>>, TRUE, "system"),
       CleanTarget(nmRecycleBin, <<>>, FALSE, "user") >>

\* config.GetTargetsByCategory
GetTargetsByCategory(category, e) ==
    LET Is(t) == t.Category = category
    IN  SelectSeq(GetCleanTargets(e), Is)

\* clean.scanTarget: each raw path expanded, globbed (the literal path
\* when the glob finds nothing), cleaned, dropped when whitelisted or
\* missing, walked when a directory
scanTarget(target, wl, fs, e) ==
    LET Found(path, info) ==
            IF info = "none" THEN <<>>
            ELSE IF KindOf(info) = "dir"
                 THEN scanDirectory(path, info, target.Category, wl, fs, e)
            ELSE <<CleanItem(path, info, target.Category)>>
        OnePath(path) ==
            IF IsWhitelisted(wl, path, e) THEN <<>> ELSE Found(path, Lstat(path, fs))
        Matches(ms) == Flatten([i \in 1..Len(ms) |-> OnePath(Clean(ms[i]))])
        Globbed(expanded, ms) == Matches(IF ms = <<>> THEN <<expanded>> ELSE ms)
        Raw(expanded) == Globbed(expanded, Glob(expanded, fs))
    IN  Flatten([i \in 1..Len(target.Paths) |-> Raw(ExpandEnv(target.Paths[i], e))])

RECURSIVE SumOf(_)
SumOf(ns) == IF ns = <<>> THEN 0 ELSE Head(ns) + SumOf(Tail(ns))

\* ItemsToResult with the total assigned from each item, not added to
ItemsToResult_TotalAssigned(name, items) ==
    [Category |-> name, Items |-> items,
     TotalSize |-> IF items = <<>> THEN 0 ELSE items[Len(items)].Size,
     ItemCount |-> Len(items)]

\* clean.ItemsToResult
ItemsToResult(name, items) ==
    [Category |-> name, Items |-> items,
     TotalSize |-> SumOf([i \in 1..Len(items) |-> items[i].Size]),
     ItemCount |-> Len(items)]

\* sort.Slice(results, by Category)
RECURSIVE SortByCategory(_)
SortByCategory(rs) ==
    IF rs = {} THEN <<>>
    ELSE LET First(r) == <<r>> \o SortByCategory(rs \ {r})
         IN  First(CHOOSE r \in rs : \A o \in rs \ {r} : ~StrLess(o.Category, r.Category))

\* clean.ScanAll: one result per target that is not skipped and has items,
\* sorted by target name
ScanAll(targets, wl, isAdmin, fs, e) ==
    LET Result(name, items) ==
            IF items = <<>> THEN <<>> ELSE <<ItemsToResult(name, items)>>
        Worker(t) ==
            IF (t.RequiresAdmin /\ ~isAdmin) \/ t.Name = nmRecycleBin THEN <<>>
            ELSE Result(t.Name, scanTarget(t, wl, fs, e))
        Sorted(rs) == SortByCategory({rs[i] : i \in 1..Len(rs)})
    IN  Sorted(Flatten([i \in 1..Len(targets) |-> Worker(targets[i])]))

\* clean.TotalSizeAll
TotalSizeAll(results) == SumOf([i \in 1..Len(results) |-> results[i].TotalSize])

\* the items of all results, in the order the clean loop visits them
AllItems(results) == Flatten([i \in 1..Len(results) |-> results[i].Items])

\* clean.GoModCacheSize, the module cache being C:\gomod when it exists
GoModCacheSize(fs) ==
    LET Size(n) == IF n = "none" THEN 0 ELSE SizeOf(n, fs)
    IN  Size(Lookup(OnC(<<nmGoMod>>), fs, TRUE))

\* clean.WindowsOldSize
WindowsOldSize(fs, e) ==
    LET Size(n) == IF n = "none" THEN 0 ELSE SizeOf(n, fs)
    IN  IF ~e.isAdmin THEN 0 ELSE Size(Lookup(OnC(<<WindowsOld>>), fs, TRUE))

(***************************************************************************)
(* The commands.  A command runs from start to end before another starts;  *)
(* run holds its position and its locals, calls the removals it has made.  *)
(***************************************************************************)
Removal(cmd, via, path, ans, before) ==
    [cmd |-> cmd, via |-> via, path |-> path, bytes |-> ans.bytes, err |-> ans.err,
     removed |-> before \ ans.files]

Started(cmd, pc, flag, dryRun, items, scan, fs) ==
    [cmd |-> cmd, pc |-> pc, flag |-> flag, dryRun |-> dryRun, items |-> items,
     idx |-> 1, totalFreed |-> 0, totalCleaned |-> 0, errCount |-> 0, lastErr |-> "nil",
     recycleBinSize |-> scan.recycleBinSize, goModSize |-> scan.goModSize,
     windowsOldSize |-> scan.windowsOldSize,
     before |-> fs, first |-> Len(calls) + 1, fails |-> 0, executed |-> pc = "deleting",
     realRuns |-> run.realRuns + (IF pc = "deleting" THEN 1 ELSE 0)]

NoSizes == [recycleBinSize |-> 0, goModSize |-> 0, windowsOldSize |-> 0]

\* runClean's scan phase for one category flag: the results of ScanAll and
\* the three sizes that are not scan results
ScanPhase(flag, fs, e) ==
    [results |->
        (IF flag = "user"
         THEN ScanAll(GetTargetsByCategory("user", e), e.wl, e.isAdmin, fs, e) ELSE <<>>)
        \o (IF flag = "system"
            THEN ScanAll(GetTargetsByCategory("system", e), e.wl, e.isAdmin, fs, e) ELSE <<>>),
     recycleBinSize |-> IF flag = "user" THEN e.recycleBin ELSE 0,
     goModSize |-> IF flag = "dev" THEN GoModCacheSize(fs) ELSE 0,
     windowsOldSize |-> IF flag = "system" /\ e.isAdmin THEN WindowsOldSize(fs, e) ELSE 0]

LedgerEntry(path, size, category) == [path |-> path, size |-> size, category |-> category]

\* runClean's dry-run branch: DryRunContext.Add for every scanned item,
\* then for the recycle bin, the Go module cache and Windows.old
DryRunEntries(items, scan) ==
    [i \in 1..Len(items) |-> LedgerEntry(items[i].Path, items[i].Size, items[i].Category)]
    \o (IF scan.recycleBinSize > 0
        THEN <<LedgerEntry(nmRecycleBinShell, scan.recycleBinSize, "user")>> ELSE <<>>)
    \o (IF scan.goModSize > 0
        THEN <<LedgerEntry(nmGoModuleCache, scan.goModSize, "dev")>> ELSE <<>>)
    \o (IF scan.windowsOldSize > 0
        THEN <<LedgerEntry(OnC(<<WindowsOld>>), scan.windowsOldSize, "system")>> ELSE <<>>)

\* DryRunContext.TotalSize
TotalSize(entries) == SumOf([i \in 1..Len(entries) |-> entries[i].size])

Idle == run.pc \in {"idle", "done"} /\ run.realRuns < MaxRealRuns

\* the --dry-run flag of a command line: not given, or given as true or false
DryRunFlags == {"unset", "true", "false"}

\* what ui.Confirm comes back with: yes, no, or an error (interrupted)
ConfirmAnswers == {"yes", "no", "error"}

\* runClean's dryRun: the flag, or the configuration's DryRunMode when the
\* flag was not given
CleanDryRun(dryRunFlag, e) ==
    IF dryRunFlag = "unset" /\ e.dryRunMode THEN TRUE ELSE dryRunFlag = "true"

\* the run with the answer its confirmation prompt got ("unasked": no prompt)
Asked(r, answer) ==
    [f \in DOMAIN r \cup {"confirm"} |-> IF f = "confirm" THEN answer ELSE r[f]]

\* runClean up to the start of the deletion loop: scan, totals, the
\* dry-run export or the confirmation prompt
runClean_Scan ==
    /\ Idle
    /\ \E flag \in {"user", "system", "dev"}, dryRunFlag \in DryRunFlags,
          answer \in ConfirmAnswers :
         \E scan \in {ScanPhase(flag, files, env)}, dryRun \in {CleanDryRun(dryRunFlag, env)} :
           \E items \in {AllItems(scan.results)} :
             LET totalSize == TotalSizeAll(scan.results) + scan.recycleBinSize
                                  + scan.goModSize + scan.windowsOldSize
             IN  IF totalSize = 0
                 THEN /\ run' = Asked(Started("clean", "done", flag, dryRun, items, scan, files),
                                      "unasked")
                      /\ UNCHANGED drc
                 ELSE IF dryRun
                 THEN /\ run' = Asked(Started("clean", "done", flag, dryRun, items, scan, files),
                                      "unasked")
                      /\ drc' = [made |-> TRUE, flag |-> flag, fs |-> files,
                                 entries |-> DryRunEntries(items, scan)]
                 ELSE /\ run' = Asked(Started("clean",
                                              IF answer = "yes" THEN "deleting" ELSE "done",
                                              flag, dryRun, items, scan, files), answer)
                      /\ UNCHANGED drc
    /\ UNCHANGED <<files, env, calls, guardVars, xCall, wlVars, moreVars>>

\* the bookkeeping of runClean's loop body with SafeDelete's error at hand
ItemOutcome_AbortOnError(r, ans) ==
    IF ans.err # "nil"
    THEN [r EXCEPT !.errCount = @ + 1, !.idx = Len(r.items) + 1]
    ELSE [r EXCEPT !.totalFreed = @ + ans.bytes, !.totalCleaned = @ + 1, !.idx = @ + 1]

\* the bookkeeping of runClean's loop body: a failure is counted and the
\* loop goes on, a success adds to the bytes freed and the items cleaned
ItemOutcome(r, ans) ==
    IF ans.err # "nil"
    THEN [r EXCEPT !.errCount = @ + 1, !.idx = @ + 1]
    ELSE [r EXCEPT !.totalFreed = @ + ans.bytes, !.totalCleaned = @ + 1, !.idx = @ + 1]

Failed(r, ans) == [r EXCEPT !.fails = @ + (IF ans.err = "IOError" THEN 1 ELSE 0)]

\* one turn of runClean's deletion loop
runClean_Item ==
    /\ run.cmd = "clean" /\ run.pc = "deleting" /\ run.idx <= Len(run.items)
    /\ \E locked \in BOOLEAN :
         /\ locked => run.fails < MaxFailures
         /\ \E ans \in {SafeDelete(run.items[run.idx].Path, FALSE, files, locked)} :
              /\ files' = ans.files
              /\ run' = Failed(ItemOutcome(run, ans), ans)
              /\ calls' = Append(calls, Removal("clean", "SafeDelete",
                                                run.items[run.idx].Path, ans, files))
    /\ UNCHANGED <<env, drc, guardVars, xCall, wlVars, moreVars>>

\* what a step of a command leaves behind
Step(fs, r, cs, e) == [files |-> fs, run |-> r, calls |-> cs, env |-> e]

Counted(r, bytes, err) ==
    IF err # "nil" THEN [r EXCEPT !.errCount = @ + 1]
    ELSE [r EXCEPT !.totalFreed = @ + bytes, !.totalCleaned = @ + 1]

\* runClean: "Empty Recycle Bin", through the shell
EmptyRecycleBinStep(st, fail) ==
    IF st.run.recycleBinSize = 0 THEN st
    ELSE IF fail
    THEN Step(st.files, Counted(st.run, 0, "IOError"),
              Append(st.calls, [cmd |-> "clean", via |-> "SHEmptyRecycleBin",
                                path |-> nmRecycleBin, bytes |-> 0, err |-> "IOError",
                                removed |-> {}]),
              st.env)
    ELSE Step(st.files, Counted(st.run, st.run.recycleBinSize, "nil"),
              Append(st.calls, [cmd |-> "clean", via |-> "SHEmptyRecycleBin",
                                path |-> nmRecycleBin, bytes |-> st.run.recycleBinSize,
                                err |-> "nil", removed |-> {"recycle bin"}]),
              [st.env EXCEPT !.recycleBin = 0])

\* clean.CleanGoModCache(dryRun): the size of the module cache, which
\* "go clean -modcache" then removes
CleanGoModCache(dryRun, fs, fail) ==
    LET Clean1(n) ==
            IF n = "none" THEN Answer(0, "nil", "", <<>>, fs)
            ELSE IF dryRun THEN Answer(SizeOf(n, fs), "nil", "", <<>>, fs)
            ELSE IF fail THEN Answer(0, "IOError", "", <<>>, fs)
            ELSE Answer(SizeOf(n, fs), "nil", "", <<>>, fs \ Under(n, fs))
    IN  Clean1(Lookup(OnC(<<nmGoMod>>), fs, TRUE))

\* runClean: "Go module cache"
GoModCacheStep(st, fail) ==
    LET Done(ans) ==
            Step(ans.files, Counted(st.run, ans.bytes, ans.err),
                 Append(st.calls, Removal("clean", "go clean -modcache",
                                          OnC(<<nmGoMod>>), ans, st.files)),
                 st.env)
    IN  IF st.run.goModSize = 0 THEN st
        ELSE Done(CleanGoModCache(FALSE, st.files, fail))

\* clean.CleanWindowsOld(dryRun): elevation, presence, size, the danger
\* prompt, then SafeDelete
CleanWindowsOld(dryRun, fs, e, confirmed, locked) ==
    LET Old(n) ==
            IF ~e.isAdmin THEN Answer(0, "NotElevated", "", <<>>, fs)
            ELSE IF n = "none" THEN Answer(0, "nil", "", <<>>, fs)
            ELSE IF dryRun THEN Answer(SizeOf(n, fs), "nil", "", <<>>, fs)
            ELSE IF ~confirmed THEN Answer(0, "nil", "", <<>>, fs)
            ELSE SafeDelete(OnC(<<WindowsOld>>), FALSE, fs, locked)
    IN  Old(Lookup(OnC(<<WindowsOld>>), fs, TRUE))

\* runClean: "Windows.old"; a success that frees nothing is not counted
WindowsOldStep(st, confirmed, locked) ==
    LET Done(ans) ==
            Step(ans.files,
                 IF ans.err = "nil" /\ ans.bytes = 0 THEN st.run
                 ELSE Counted(st.run, ans.bytes, ans.err),
                 IF ans.io = <<>> THEN st.calls
                 ELSE Append(st.calls, Removal("clean", "SafeDelete",
                                               OnC(<<WindowsOld>>), ans, st.files)),
                 st.env)
    IN  IF st.run.windowsOldSize = 0 THEN st
        ELSE Done(CleanWindowsOld(FALSE, st.files, st.env, confirmed, locked))

\* runClean after its deletion loop: the recycle bin, the Go module cache
\* and Windows.old, then the summary
runClean_Extras ==
    /\ run.cmd = "clean" /\ run.pc = "deleting" /\ run.idx > Len(run.items)
    /\ \E fail \in BOOLEAN, confirmed \in BOOLEAN :
         \E st \in {WindowsOldStep(GoModCacheStep(EmptyRecycleBinStep(
                        Step(files, run, calls, env), fail), fail), confirmed, fail)} :
            /\ files' = st.files
            /\ run' = [st.run EXCEPT !.pc = "done"]
            /\ calls' = st.calls
            /\ env' = st.env
    /\ UNCHANGED <<drc, guardVars, xCall, wlVars, moreVars>>

\* the file lists CleanInstallers is called with
InstallerLists ==
    { << [Path |-> OnC(<<nmCache, nmC1>>)], [Path |-> OnC(<<nmCache, nmC2>>)],
         [Path |-> OnC(<<nmCache, nmC3>>)] >>,
      << [Path |-> OnC(<<Users, nmU, Temp, nmA>>)], [Path |-> OnC(<<nmCache, nmC4>>)] >> }

\* runInstaller from the selected files on: without --dry-run it asks for
\* confirmation and stops unless the answer is yes; then
\* installer.CleanInstallers is called on the files
CleanInstallers_Start ==
    /\ Idle
    /\ \E list \in InstallerLists, dryRunFlag \in DryRunFlags, answer \in ConfirmAnswers :
         LET dryRun == dryRunFlag = "true"
         IN  run' = IF dryRun
                    THEN Asked(Started("installer", "deleting", "none", dryRun, list,
                                       NoSizes, files), "unasked")
                    ELSE Asked(Started("installer",
                                       IF answer = "yes" THEN "deleting" ELSE "done",
                                       "none", dryRun, list, NoSizes, files), answer)
    /\ UNCHANGED <<files, env, drc, calls, guardVars, xCall, wlVars, moreVars>>

\* CleanInstallers keeping the first error it met, not the last
InstallerOutcome_FirstErrorKept(r, ans) ==
    IF ans.err # "nil"
    THEN [r EXCEPT !.lastErr = IF @ = "nil" THEN ans.err ELSE @, !.idx = @ + 1]
    ELSE [r EXCEPT !.totalFreed = @ + ans.bytes, !.totalCleaned = @ + 1, !.idx = @ + 1]

\* the bookkeeping of CleanInstallers' loop body: the last error is kept
\* and the loop goes on, a success adds to the bytes and the count
InstallerOutcome(r, ans) ==
    IF ans.err # "nil"
    THEN [r EXCEPT !.lastErr = ans.err, !.idx = @ + 1]
    ELSE [r EXCEPT !.totalFreed = @ + ans.bytes, !.totalCleaned = @ + 1, !.idx = @ + 1]

\* one turn of CleanInstallers' loop; the call returns after the last one
CleanInstallers_Item ==
    /\ run.cmd = "installer" /\ run.pc = "deleting" /\ run.idx <= Len(run.items)
    /\ \E locked \in BOOLEAN :
         /\ locked => run.fails < MaxFailures
         /\ \E ans \in {SafeDelete(run.items[run.idx].Path, run.dryRun, files, locked)} :
              /\ files' = ans.files
              /\ run' = [Failed(InstallerOutcome(run, ans), ans)
                            EXCEPT !.pc = IF run.idx = Len(run.items) THEN "done" ELSE @]
              /\ calls' = Append(calls, Removal("installer", "SafeDelete",
                                                run.items[run.idx].Path, ans, files))
    /\ UNCHANGED <<env, drc, guardVars, xCall, wlVars, moreVars>>

\* the artifacts selected for a purge
ArtifactLists ==
    { << [ArtifactPath |-> OnC(<<nmSafe, nmSub>>)], [ArtifactPath |-> OnC(<<Windows, Temp>>)],
         [ArtifactPath |-> OnC(<<nmWork>>)] >>,
      << [ArtifactPath |-> OnC(<<nmGoMod>>)], [ArtifactPath |-> OnC(<<nmSafe, nmMissing>>)] >> }

\* runPurge from the selected artifacts on: without --dry-run it asks for
\* confirmation and stops unless the answer is yes; then
\* purge.PurgeArtifacts is called on the artifacts
PurgeArtifacts_Start ==
    /\ Idle
    /\ \E list \in ArtifactLists, dryRunFlag \in DryRunFlags, answer \in ConfirmAnswers :
         LET dryRun == dryRunFlag = "true"
         IN  run' = IF dryRun
                    THEN Asked(Started("purge", "deleting", "none", dryRun, list,
                                       NoSizes, files), "unasked")
                    ELSE Asked(Started("purge",
                                       IF answer = "yes" THEN "deleting" ELSE "done",
                                       "none", dryRun, list, NoSizes, files), answer)
    /\ UNCHANGED <<files, env, drc, calls, guardVars, xCall, wlVars, moreVars>>

\* the bookkeeping of PurgeArtifacts' loop body
PurgeOutcome(r, ans) ==
    IF ans.err # "nil"
    THEN [r EXCEPT !.lastErr = ans.err, !.idx = @ + 1]
    ELSE [r EXCEPT !.totalFreed = @ + ans.bytes, !.totalCleaned = @ + 1, !.idx = @ + 1]

\* one turn of PurgeArtifacts' loop; the call returns after the last one
PurgeArtifacts_Item ==
    /\ run.cmd = "purge" /\ run.pc = "deleting" /\ run.idx <= Len(run.items)
    /\ \E locked \in BOOLEAN :
         /\ locked => run.fails < MaxFailures
         /\ \E ans \in {SafeDelete(run.items[run.idx].ArtifactPath, run.dryRun, files, locked)} :
              /\ files' = ans.files
              /\ run' = [Failed(PurgeOutcome(run, ans), ans)
                            EXCEPT !.pc = IF run.idx = Len(run.items) THEN "done" ELSE @]
              /\ calls' = Append(calls, Removal("purge", "SafeDelete",
                                                run.items[run.idx].ArtifactPath, ans, files))
    /\ UNCHANGED <<env, drc, guardVars, xCall, wlVars, moreVars>>

\* os.Remove: a file, a link or an empty directory goes, unless it is held
osRemove(path, fs, locked) ==
    LET Gone(n) ==
            IF n = "none" THEN Answer(0, "NotExist", "", <<"Remove">>, fs)
            ELSE IF locked \/ Under(n, fs) # {n} THEN Answer(0, "IOError", "", <<"Remove">>, fs)
            ELSE Answer(0, "nil", "", <<"Remove">>, fs \ {n})
    IN  Gone(Lstat(path, fs))

nmIconCacheGlob == <<"i", "c", "o", "n", "c", "a", "c", "h", "e", "*">>
nmMicrosoft == <<"M", "i", "c", "r", "o", "s", "o", "f", "t">>
nmExplorer == <<"E", "x", "p", "l", "o", "r", "e", "r">>

\* os.Remove of each path in turn, errors ignored
RECURSIVE RemoveEach(_, _, _)
RemoveEach(paths, st, locked) ==
    IF paths = <<>> THEN st
    ELSE LET Next1(ans) ==
                 Step(ans.files, st.run,
                      Append(st.calls, Removal("optimize", "os.Remove", Head(paths), ans, st.files)),
                      st.env)
         IN  RemoveEach(Tail(paths), Next1(osRemove(Head(paths), st.files, locked)), locked)

\* clean.RebuildIconCache, run by the optimize command: needs elevation,
\* then removes what iconcache* matches in the Explorer directory and the
\* legacy IconCache.db, each with os.Remove
RebuildIconCache ==
    /\ Idle
    /\ \E locked \in BOOLEAN, dryRunFlag \in DryRunFlags :
         LET local == Getenv(varLOCALAPPDATA, env)
             started == [Asked(Started("optimize", "done", "none", dryRunFlag = "true", <<>>,
                                       NoSizes, files),
                               "unasked")
                            EXCEPT !.realRuns = run.realRuns + 1]
             st == IF dryRunFlag = "true" \/ ~env.isAdmin \/ local = <<>>
                   THEN Step(files, started, calls, env)
                   ELSE RemoveEach(
                            Glob(Clean(Join(<<local, nmMicrosoft, Windows, nmExplorer,
                                              nmIconCacheGlob>>, PathSeparator)), files)
                                \o <<Clean(Join(<<local, nmIconCacheDb>>, PathSeparator))>>,
                            Step(files, started, calls, env), locked)
         IN  /\ files' = st.files
             /\ run' = st.run
             /\ calls' = st.calls
    /\ UNCHANGED <<env, drc, guardVars, xCall, wlVars, moreVars>>

\* what the environment may be when the commands start
CleanEnvs ==
    [isAdmin : BOOLEAN,
     temp : {OnC(<<Users, nmU, Temp>>), OnC(<<nmCache>>), OnC(<<nmSafe>>)},
     wl : {<<>>, << <<"%", "T", "E", "M", "P", "%", PathSeparator>> \o nmC5,
                     OnC(<<nmGoMod, <<"*">> >>), OnC(<<Windows, Temp>>) >>},
     recycleBin : {0, 5},
     dryRunMode : BOOLEAN]

CleanInit ==
    /\ GuardIdle
    /\ xCall = NoCall
    /\ files \in {Nodes, Nodes \ {"ut"}}
    /\ env \in CleanEnvs
    /\ run = NoRun
    /\ drc = NoLedger
    /\ calls = <<>>
    /\ WlIdle
    /\ MoreIdle

CleanNext ==
    \/ runClean_Scan
    \/ runClean_Item
    \/ runClean_Extras
    \/ CleanInstallers_Start
    \/ CleanInstallers_Item
    \/ RebuildIconCache

SpecClean == CleanInit /\ [][CleanNext]_vars

\* the removals made by the command under way, in the order it made them
Mine == SubSeq(calls, run.first, Len(calls))

\* C5: for one filesystem state the preview and the execution of clean use
\* the same items: the paths in the DryRunContext are exactly the paths the
\* real run passes to SafeDelete and, with no I/O error, the ledger's total
\* is what the real run frees.
C5_PreviewMatchesRun ==
    (run.cmd = "clean" /\ run.pc = "done" /\ run.executed
        /\ drc.made /\ drc.flag = run.flag /\ drc.fs = run.before)
    => /\ {drc.entries[i].path : i \in 1..Len(drc.entries)}
              = {Mine[i].path : i \in {j \in 1..Len(Mine) : Mine[j].via = "SafeDelete"}}
       /\ (\A i \in 1..Len(Mine) : Mine[i].err # "IOError")
              => TotalSize(drc.entries) = run.totalFreed

\* the deletion loop of clean or of CleanInstallers is under way or over
InBatch ==
    \/ run.cmd = "clean" /\ run.pc = "deleting"
    \/ run.cmd = "installer" /\ run.pc \in {"deleting", "done"}

\* C6: a batch attempts its items one by one, in order, whatever came
\* before: after k turns the first k items have each been passed to
\* SafeDelete once, the items deleted plus the failures are k, and the bytes
\* freed are the sum of what the successful calls returned; so at the end of
\* the batch itemsDeleted + errorCount is the number of items.
C6_BatchCounts ==
    InBatch =>
        LET ok == {i \in 1..Len(Mine) : Mine[i].err = "nil"}
        IN  /\ Len(Mine) = run.idx - 1
            /\ run.idx <= Len(run.items) + 1
            /\ \A i \in 1..Len(Mine) :
                   Mine[i].path = run.items[i].Path /\ Mine[i].via = "SafeDelete"
            /\ run.totalCleaned = Cardinality(ok)
            /\ run.cmd = "clean" => run.totalCleaned + run.errCount = run.idx - 1
            /\ run.totalFreed = SumOf([i \in 1..Len(Mine) |->
                                          IF i \in ok THEN Mine[i].bytes ELSE 0])

\* five items, the third locked: four deleted, one error, 1 + 2 + 8 + 16 bytes
C6_Witness ==
    /\ run.cmd = "clean" /\ run.pc = "deleting"
    /\ Len(run.items) = 5 /\ run.idx = 6
    /\ Mine[3].err = "IOError"
    /\ run.totalCleaned = 4 /\ run.errCount = 1
    /\ run.totalFreed = 27

\* C6 as the specification words it, for every batch alike: when the batch
\* ends, the items deleted plus the error count are the number of items.
C6_ErrorCountEverywhere ==
    (InBatch /\ run.idx = Len(run.items) + 1) =>
        run.totalCleaned + run.errCount = Len(run.items)

\* C7: no item ScanAll hands to clean has a path PathGuard rejects: every
\* item's path passes IsSafePath.
C7_ScanItemsSafe ==
    run.cmd = "clean" => \A i \in 1..Len(run.items) : IsSafePath(run.items[i].Path)

\* C8: whatever a command removes, it removes by a call of SafeDelete or
\* SafeDeleteWithWhitelist.
C8_OnlyThroughSafeDelete ==
    \A i \in 1..Len(calls) :
        calls[i].removed # {} => calls[i].via \in {"SafeDelete", "SafeDeleteWithWhitelist"}

(***************************************************************************)
(* The whitelist shared by goroutines.  w.patterns is a slice: a header    *)
(* (array, length, capacity) over a backing array in heap.  Every memory   *)
(* access of Add, Remove, IsWhitelisted and List is a step of its own; the *)
(* read-write mutex is what keeps the steps of different calls apart.      *)
(***************************************************************************)
Writers == {"w1", "w2"}
Readers == {"r1", "r2"}
Goroutines == Writers \cup Readers

nmT == <<"t">>
patA == OnC(<<nmT, <<"a">> >>)
patB == OnC(<<nmT, <<"b">> >>)
patC == OnC(<<nmT, <<"c">> >>)

AddArgs == {patC, <<" ">> \o ToUpper(patA), <<"*">>}
RemoveArgs == {ToUpper(patA), patC}
QueryPaths == {patB \o <<PathSeparator>> \o nmX}

\* strings.TrimSpace
RECURSIVE TrimLeft(_)
TrimLeft(s) == IF s # <<>> /\ IsSpace(Head(s)) THEN TrimLeft(Tail(s)) ELSE s
RECURSIVE TrimRight(_)
TrimRight(s) ==
    IF s # <<>> /\ IsSpace(s[Len(s)]) THEN TrimRight(SubSeq(s, 1, Len(s) - 1)) ELSE s
TrimSpace(s) == TrimRight(TrimLeft(s))

\* whitelist.validatePattern: "nil", or why the pattern is too broad
validatePattern(pattern) ==
    LET Check(cleaned) ==
            IF cleaned = <<"*">> \/ cleaned = <<"*", "*">>
            THEN "pattern is too broad and would match everything"
            ELSE IF /\ Len(cleaned) >= 2 /\ cleaned[2] = Colon /\ IsLetter(cleaned[1])
                    /\ SubSeq(cleaned, 3, Len(cleaned))
                           \in {<<>>, <<BS>>, <<Slash>>, <<BS, "*">>, <<Slash, "*">>}
                 THEN "pattern is a drive root and too dangerous"
            ELSE IF Cardinality({i \in 1..Len(cleaned) : IsSlash(cleaned[i])}) < 2
                 THEN "pattern has fewer than 2 path separators and is too broad"
            ELSE "nil"
    IN  Check(TrimSpace(pattern))

NoSlice == [ptr |-> "none", len |-> 0, cap |-> 0]

\* the elements of a slice
Cells(hdr) == SubSeq(heap[hdr.ptr], 1, hdr.len)

\* an array of n zero values
Blank(n) == [i \in 1..n |-> <<>>]

IdleProc ==
    [pc |-> "idle", op |-> "none", arg |-> <<>>, calls |-> 0, start |-> 0, rng |-> NoSlice,
     i |-> 0, tmp |-> NoSlice, read |-> <<>>, result |-> "none", snap |-> <<>>]

\* the array a call allocates, named after the call
NewArray(p) == p \o "#" \o ToString(proc[p].calls)

\* a call begins: its arguments, and the list as it stands
Called1(p, op, arg, pc, result) ==
    [IdleProc EXCEPT !.pc = pc, !.op = op, !.arg = arg, !.result = result,
                     !.calls = proc[p].calls + 1, !.start = Len(hist)]

CanCall(p) == proc[p].pc \in {"idle", "returned"} /\ proc[p].calls < MaxCalls

\* Add is called and runs up to its Lock: trims, rejects the empty and the
\* too broad pattern
Add_Enter ==
    /\ \E p \in Writers, arg \in AddArgs :
         /\ CanCall(p)
         /\ \E pattern \in {TrimSpace(arg)} :
              proc' = [proc EXCEPT ![p] =
                          IF pattern = <<>>
                          THEN Called1(p, "Add", arg, "returned", "pattern cannot be empty")
                          ELSE IF validatePattern(pattern) # "nil"
                          THEN Called1(p, "Add", arg, "returned", validatePattern(pattern))
                          ELSE Called1(p, "Add", pattern, "lock", "none")]
    /\ UNCHANGED <<w, heap, hist, guardVars, execVars, cleanVars, moreVars>>

\* Remove is called and runs up to its Lock: trims, rejects the empty pattern
Remove_Enter ==
    /\ \E p \in Writers, arg \in RemoveArgs :
         /\ CanCall(p)
         /\ \E pattern \in {TrimSpace(arg)} :
              proc' = [proc EXCEPT ![p] =
                          IF pattern = <<>>
                          THEN Called1(p, "Remove", arg, "returned", "pattern cannot be empty")
                          ELSE Called1(p, "Remove", pattern, "lock", "none")]
    /\ UNCHANGED <<w, heap, hist, guardVars, execVars, cleanVars, moreVars>>

\* IsWhitelisted is called
IsWhitelisted_Enter ==
    /\ \E p \in Readers, path \in QueryPaths :
         /\ CanCall(p)
         /\ proc' = [proc EXCEPT ![p] = Called1(p, "IsWhitelisted", path, "rlock", "none")]
    /\ UNCHANGED <<w, heap, hist, guardVars, execVars, cleanVars, moreVars>>

\* List is called
List_Enter ==
    /\ \E p \in Readers :
         /\ CanCall(p)
         /\ proc' = [proc EXCEPT ![p] = Called1(p, "List", <<>>, "rlock", "none")]
    /\ UNCHANGED <<w, heap, hist, guardVars, execVars, cleanVars, moreVars>>

\* sync.RWMutex: Lock waits for the writer and the readers to be gone
CanLock(mu) == mu.writer = "none" /\ mu.readers = {}

\* RLock that does not wait for a writer
CanRLock_NoWait(mu) == TRUE

\* sync.RWMutex: RLock waits for the writer to be gone
CanRLock(mu) == mu.writer = "none"

\* w.mu.Lock(), and the range statement's reading of the slice header
Lock ==
    /\ \E p \in Goroutines :
         /\ proc[p].pc = "lock"
         /\ CanLock(w.mu)
         /\ w' = [w EXCEPT !.mu.writer = p]
         /\ proc' = [proc EXCEPT ![p].pc = "scan", ![p].rng = w.patterns, ![p].i = 1]
    /\ UNCHANGED <<heap, hist, guardVars, execVars, cleanVars, moreVars>>

\* Add's duplicate check, one element a step
Add_Scan ==
    /\ \E p \in Goroutines :
         /\ proc[p].pc = "scan" /\ proc[p].op = "Add"
         /\ proc' = [proc EXCEPT ![p] =
                        IF @.i > @.rng.len THEN [@ EXCEPT !.pc = "append"]
                        ELSE IF EqualFold(heap[@.rng.ptr][@.i], @.arg)
                        THEN [@ EXCEPT !.pc = "unlock", !.result = "pattern already exists"]
                        ELSE [@ EXCEPT !.i = @ + 1]]
    /\ UNCHANGED <<w, heap, hist, guardVars, execVars, cleanVars, moreVars>>

\* append(w.patterns, pattern): in place when the capacity allows, else
\* into a new array of twice the capacity
Add_Append ==
    /\ \E p \in Goroutines :
         /\ proc[p].pc = "append"
         /\ LET hdr == w.patterns
                newcap == IF hdr.cap = 0 THEN 1 ELSE 2 * hdr.cap
            IN  IF hdr.len < hdr.cap
                THEN /\ heap' = [heap EXCEPT ![hdr.ptr][hdr.len + 1] = proc[p].arg]
                     /\ proc' = [proc EXCEPT ![p].pc = "store",
                                             ![p].tmp = [hdr EXCEPT !.len = @ + 1]]
                ELSE /\ heap' = [a \in DOMAIN heap \cup {NewArray(p)} |->
                                    IF a = NewArray(p)
                                    THEN Cells(hdr) \o <<proc[p].arg>> \o Blank(newcap - hdr.len - 1)
                                    ELSE heap[a]]
                     /\ proc' = [proc EXCEPT ![p].pc = "store",
                                             ![p].tmp = [ptr |-> NewArray(p), len |-> hdr.len + 1,
                                                         cap |-> newcap]]
    /\ UNCHANGED <<w, hist, guardVars, execVars, cleanVars, moreVars>>

\* Remove's search, one element a step
Remove_Scan ==
    /\ \E p \in Goroutines :
         /\ proc[p].pc = "scan" /\ proc[p].op = "Remove"
         /\ proc' = [proc EXCEPT ![p] =
                        IF @.i > @.rng.len
                        THEN [@ EXCEPT !.pc = "unlock", !.result = "pattern not found"]
                        ELSE IF EqualFold(heap[@.rng.ptr][@.i], @.arg)
                        THEN [@ EXCEPT !.pc = "shift"]
                        ELSE [@ EXCEPT !.i = @ + 1]]
    /\ UNCHANGED <<w, heap, hist, guardVars, execVars, cleanVars, moreVars>>

\* append(w.patterns[:i], w.patterns[i+1:]...): the tail moves down one
\* place within the same array, one element a step
Remove_Shift ==
    /\ \E p \in Goroutines :
         /\ proc[p].pc = "shift"
         /\ LET i == proc[p].i
                hdr == proc[p].rng
            IN  IF i < hdr.len
                THEN /\ heap' = [heap EXCEPT ![hdr.ptr][i] = heap[hdr.ptr][i + 1]]
                     /\ proc' = [proc EXCEPT ![p].i = i + 1]
                ELSE /\ proc' = [proc EXCEPT ![p].pc = "store",
                                             ![p].tmp = [hdr EXCEPT !.len = @ - 1]]
                     /\ UNCHANGED heap
    /\ UNCHANGED <<w, hist, guardVars, execVars, cleanVars, moreVars>>

\* w.patterns = ...: the new slice header is stored; the mutation is whole
Store ==
    /\ \E p \in Goroutines :
         /\ proc[p].pc = "store"
         /\ w' = [w EXCEPT !.patterns = proc[p].tmp]
         /\ hist' = Append(hist, Cells(proc[p].tmp))
         /\ proc' = [proc EXCEPT ![p].pc = "unlock", ![p].result = "nil"]
    /\ UNCHANGED <<heap, guardVars, execVars, cleanVars, moreVars>>

\* the deferred w.mu.Unlock()
Unlock ==
    /\ \E p \in Goroutines :
         /\ proc[p].pc = "unlock"
         /\ w' = [w EXCEPT !.mu.writer = "none"]
         /\ proc' = [proc EXCEPT ![p].pc = "returned"]
    /\ UNCHANGED <<heap, hist, guardVars, execVars, cleanVars, moreVars>>

\* w.mu.RLock(); IsWhitelisted's range statement reads the slice header
RLock ==
    /\ \E p \in Goroutines :
         /\ proc[p].pc = "rlock"
         /\ CanRLock(w.mu)
         /\ w' = [w EXCEPT !.mu.readers = @ \cup {p}]
         /\ proc' = [proc EXCEPT ![p].pc = IF proc[p].op = "List" THEN "make" ELSE "iter",
                                 ![p].rng = w.patterns, ![p].i = 1]
    /\ UNCHANGED <<heap, hist, guardVars, execVars, cleanVars, moreVars>>

\* IsWhitelisted's loop, one pattern a step: the first match answers
IsWhitelisted_Iter ==
    /\ \E p \in Goroutines :
         /\ proc[p].pc = "iter"
         /\ proc' = [proc EXCEPT ![p] =
                        IF @.i > @.rng.len THEN [@ EXCEPT !.pc = "runlock", !.result = FALSE]
                        ELSE IF PatternMatches(
                                    Clean(ExpandWindowsEnv(heap[@.rng.ptr][@.i], env)), Clean(@.arg))
                        THEN [@ EXCEPT !.pc = "runlock", !.result = TRUE,
                                       !.read = Append(@, heap[proc[p].rng.ptr][proc[p].i])]
                        ELSE [@ EXCEPT !.i = @ + 1,
                                       !.read = Append(@, heap[proc[p].rng.ptr][proc[p].i])]]
    /\ UNCHANGED <<w, heap, hist, guardVars, execVars, cleanVars, moreVars>>

\* List: make([]string, len(w.patterns)), and copy's reading of the header
List_Make ==
    /\ \E p \in Goroutines :
         /\ proc[p].pc = "make"
         /\ heap' = [a \in DOMAIN heap \cup {NewArray(p)} |->
                        IF a = NewArray(p) THEN Blank(w.patterns.len) ELSE heap[a]]
         /\ proc' = [proc EXCEPT ![p].pc = "copy", ![p].rng = w.patterns, ![p].i = 1,
                                 ![p].tmp = [ptr |-> NewArray(p), len |-> w.patterns.len,
                                             cap |-> w.patterns.len]]
    /\ UNCHANGED <<w, hist, guardVars, execVars, cleanVars, moreVars>>

\* List: copy(result, w.patterns), one element a step
List_Copy ==
    /\ \E p \in Goroutines :
         /\ proc[p].pc = "copy"
         /\ LET i == proc[p].i
                src == proc[p].rng
                dst == proc[p].tmp
            IN  IF i <= src.len /\ i <= dst.len
                THEN /\ heap' = [heap EXCEPT ![dst.ptr][i] = heap[src.ptr][i]]
                     /\ proc' = [proc EXCEPT ![p].i = i + 1]
                ELSE /\ proc' = [proc EXCEPT ![p].pc = "runlock", ![p].result = dst]
                     /\ UNCHANGED heap
    /\ UNCHANGED <<w, hist, guardVars, execVars, cleanVars, moreVars>>

\* the deferred w.mu.RUnlock(); List hands its slice to the caller
RUnlock ==
    /\ \E p \in Goroutines :
         /\ proc[p].pc = "runlock"
         /\ w' = [w EXCEPT !.mu.readers = @ \ {p}]
         /\ proc' = [proc EXCEPT ![p].pc = "returned",
                                 ![p].snap = IF proc[p].op = "List" THEN Cells(proc[p].result)
                                             ELSE <<>>]
    /\ UNCHANGED <<heap, hist, guardVars, execVars, cleanVars, moreVars>>

\* a whitelist of two patterns, its array full or with room for one more
WlInit ==
    /\ GuardIdle /\ ExecIdle /\ CleanIdle /\ MoreIdle
    /\ \E room \in {0, 1} :
         /\ w = [patterns |-> [ptr |-> "load", len |-> 2, cap |-> 2 + room],
                 mu |-> [writer |-> "none", readers |-> {}]]
         /\ heap = [a \in {"load"} |-> <<patA, patB>> \o Blank(room)]
    /\ proc = [p \in Goroutines |-> IdleProc]
    /\ hist = << <<patA, patB>> >>

WlNext ==
    \/ Add_Enter
    \/ Remove_Enter
    \/ IsWhitelisted_Enter
    \/ List_Enter
    \/ Lock
    \/ Add_Scan
    \/ Add_Append
    \/ Remove_Scan
    \/ Remove_Shift
    \/ Store
    \/ Unlock
    \/ RLock
    \/ IsWhitelisted_Iter
    \/ List_Make
    \/ List_Copy
    \/ RUnlock

SpecWl == WlInit /\ [][WlNext]_vars

IsPrefix(a, b) == Len(a) <= Len(b) /\ SubSeq(b, 1, Len(a)) = a

\* the pattern lists that stood at some moment of goroutine p's call
During(p) == {hist[k] : k \in proc[p].start..Len(hist)}

\* C10: a call of IsWhitelisted or List that overlaps Add and Remove calls
\* sees the pattern list as it stood before or after whole mutations, never
\* a partly updated one, and the slice List returned keeps its contents
\* whatever mutations follow.
C10_WholeLists ==
    \A p \in Readers :
        proc[p].pc = "returned" =>
            IF proc[p].op = "List"
            THEN /\ proc[p].snap \in During(p)
                 /\ Cells(proc[p].result) = proc[p].snap
            ELSE \E l \in During(p) :
                     /\ IsPrefix(proc[p].read, l)
                     /\ proc[p].result = IsWhitelisted(l, proc[p].arg, env)

\* List returned the list a Remove left behind, the Remove having started
\* after the List call did; an Add has changed the list again since
C10_Witness ==
    /\ proc["r1"].pc = "returned" /\ proc["r1"].op = "List"
    /\ proc["r1"].start = 1 /\ Len(hist) = 3
    /\ proc["r1"].snap = hist[2]
    /\ Len(hist[2]) = 1 /\ Len(hist[3]) = 2

(***************************************************************************)
(* ScanAll with its goroutines.  The loop starts one goroutine per target  *)
(* it does not skip; each scans its target, and appends its result to the  *)
(* shared results slice under the mutex; ScanAll waits on the WaitGroup,   *)
(* sorts and returns.  The read and the write of the append are steps of   *)
(* their own.                                                              *)
(***************************************************************************)
\* the target lists ScanAll is called with: a category's, or all of them
\* a target list of one target, named Temp, whose one path is %TEMP%
nmTempTarget == <<"T", "e", "m", "p">>
TempTargets == << CleanTarget(nmTempTarget, << <<"%", "T", "E", "M", "P", "%">> >>, FALSE, "user") >>

TargetLists(e) ==
    {GetTargetsByCategory("user", e), GetTargetsByCategory("system", e), GetCleanTargets(e),
     TempTargets}

\* the environments of a scan: those of a clean run, and those whose temp
\* directory is C:\work with %TEMP%\f20.tmp whitelisted
ScanEnvs ==
    CleanEnvs \cup
    [isAdmin : BOOLEAN,
     temp : {OnC(<<nmWork>>)},
     wl : {<< <<"%", "T", "E", "M", "P", "%", PathSeparator>> \o nmF20 >>},
     recycleBin : {0},
     dryRunMode : {FALSE}]

NoWorker == [pc |-> "none", items |-> <<>>, tmp |-> <<>>]

\* ScanAll is called: its locals are zero values, no goroutine runs yet
ScanAll_Call ==
    /\ sa.pc = "idle"
    /\ \E targets \in TargetLists(env) :
         /\ sa' = [pc |-> "loop", targets |-> targets, i |-> 1, wg |-> 0,
                   mu |-> 0, results |-> <<>>, out |-> <<>>]
         /\ worker' = [k \in 1..Len(targets) |-> NoWorker]
    /\ UNCHANGED <<guardVars, execVars, cleanVars, wlVars, uiVars, ledgerVars, storeVars>>

\* only the recycle bin is left out
Skipped_ElevationIgnored(t, isAdmin) == t.Name = nmRecycleBin

\* the target is left out: it needs elevation the process has not, or it
\* is the recycle bin
Skipped(t, isAdmin) == (t.RequiresAdmin /\ ~isAdmin) \/ t.Name = nmRecycleBin

\* one turn of ScanAll's loop: the target is skipped, or wg.Add(1) and a
\* goroutine is started for it; after the last turn ScanAll is at wg.Wait
ScanAll_Loop ==
    /\ sa.pc = "loop"
    /\ LET i == sa.i
           Turn(skip) ==
               /\ sa' = [sa EXCEPT !.i = @ + 1,
                                   !.wg = IF skip THEN @ ELSE @ + 1,
                                   !.pc = IF i = Len(sa.targets) THEN "wait" ELSE @]
               /\ worker' = [worker EXCEPT ![i].pc = IF skip THEN "none" ELSE "scan"]
       IN  Turn(Skipped(sa.targets[i], env.isAdmin))
    /\ UNCHANGED <<guardVars, execVars, cleanVars, wlVars, uiVars, ledgerVars, storeVars>>

\* a goroutine scans its target; with no items it returns (wg.Done)
Worker_Scan ==
    /\ \E k \in DOMAIN worker :
         /\ worker[k].pc = "scan"
         /\ LET Scanned(items) ==
                    /\ worker' = [worker EXCEPT ![k].items = items,
                                                ![k].pc = IF items = <<>> THEN "done" ELSE "lock"]
                    /\ sa' = [sa EXCEPT !.wg = IF items = <<>> THEN @ - 1 ELSE @]
            IN  Scanned(scanTarget(sa.targets[k], env.wl, files, env))
    /\ UNCHANGED <<guardVars, execVars, cleanVars, wlVars, uiVars, ledgerVars, storeVars>>

MutexFree_NoWait(mu) == TRUE

\* sync.Mutex.Lock goes through when nobody holds the mutex (0: nobody)
MutexFree(mu) == mu = 0

\* mu.Lock()
Worker_Lock ==
    /\ \E k \in DOMAIN worker :
         /\ worker[k].pc = "lock"
         /\ MutexFree(sa.mu)
         /\ sa' = [sa EXCEPT !.mu = k]
         /\ worker' = [worker EXCEPT ![k].pc = "read"]
    /\ UNCHANGED <<guardVars, execVars, cleanVars, wlVars, uiVars, ledgerVars, storeVars>>

\* append(results, result) reads the slice ...
Worker_Read ==
    /\ \E k \in DOMAIN worker :
         /\ worker[k].pc = "read"
         /\ worker' = [worker EXCEPT ![k].tmp = sa.results, ![k].pc = "write"]
    /\ UNCHANGED <<sa, guardVars, execVars, cleanVars, wlVars, uiVars, ledgerVars, storeVars>>

\* ... and results = stores what it read with the result after it
Worker_Write ==
    /\ \E k \in DOMAIN worker :
         /\ worker[k].pc = "write"
         /\ sa' = [sa EXCEPT !.results =
                       Append(worker[k].tmp,
                              ItemsToResult(sa.targets[k].Name, worker[k].items))]
         /\ worker' = [worker EXCEPT ![k].pc = "unlock"]
    /\ UNCHANGED <<guardVars, execVars, cleanVars, wlVars, uiVars, ledgerVars, storeVars>>

\* mu.Unlock(), and the deferred wg.Done() as the goroutine returns
Worker_Unlock ==
    /\ \E k \in DOMAIN worker :
         /\ worker[k].pc = "unlock"
         /\ sa' = [sa EXCEPT !.mu = IF @ = k THEN 0 ELSE @, !.wg = @ - 1]
         /\ worker' = [worker EXCEPT ![k].pc = "done"]
    /\ UNCHANGED <<guardVars, execVars, cleanVars, wlVars, uiVars, ledgerVars, storeVars>>

\* the orders of n things
Orders(n) == {f \in [1..n -> 1..n] : \A i, j \in 1..n : f[i] = f[j] => i = j}

SortSlice_AsAppended(rs) == {rs}

\* sort.Slice(results, Category <): some order of the slice in which no
\* element's Category is less than that of an element before it (the sort
\* is not stable: any such order may come out)
SortSlice(rs) ==
    LET Ordered(s) == \A i, j \in 1..Len(s) : i < j => ~StrLess(s[j].Category, s[i].Category)
        Under1(f) == [i \in 1..Len(rs) |-> rs[f[i]]]
    IN  {s \in {Under1(f) : f \in Orders(Len(rs))} : Ordered(s)}

\* wg.Wait() returns when the counter is zero
WaitOver(n) == n = 0

\* wg.Wait() is over: the results are sorted and returned
ScanAll_Return ==
    /\ sa.pc = "wait"
    /\ WaitOver(sa.wg)
    /\ \E sorted \in SortSlice(sa.results) :
         sa' = [sa EXCEPT !.pc = "returned", !.results = sorted, !.out = sorted]
    /\ UNCHANGED <<worker, guardVars, execVars, cleanVars, wlVars, uiVars, ledgerVars, storeVars>>

ScanInit ==
    /\ GuardIdle
    /\ xCall = NoCall
    /\ files \in {Nodes, Nodes \ {"ut"}}
    /\ env \in ScanEnvs
    /\ run = NoRun
    /\ drc = NoLedger
    /\ calls = <<>>
    /\ WlIdle
    /\ ScanIdle
    /\ LedgerIdle
    /\ StoreIdle /\ UiIdle

ScanNext ==
    \/ ScanAll_Call
    \/ ScanAll_Loop
    \/ Worker_Scan
    \/ Worker_Lock
    \/ Worker_Read
    \/ Worker_Write
    \/ Worker_Unlock
    \/ ScanAll_Return

SpecScan == ScanInit /\ [][ScanNext]_vars

\* the targets of the call that got a goroutine
Scanned == {k \in DOMAIN worker : ~Skipped(sa.targets[k], env.isAdmin)}

\* the order in which the goroutines appended their results
Appended == [i \in 1..Len(sa.results) |-> sa.results[i].Category]

\* C11: whatever the interleaving of the goroutines, ScanAll returns the
\* results that scanning the targets one after the other and sorting them
\* gives, for the same filesystem, target list and whitelist: in ascending
\* order of target name, each with the items of its target.
C11_SameResults ==
    sa.pc = "returned" =>
        /\ sa.out = ScanAll(sa.targets, env.wl, env.isAdmin, files, env)
        /\ \A i, j \in 1..Len(sa.out) : i < j => StrLess(sa.out[i].Category, sa.out[j].Category)

\* three results were appended in an order that is not the order of their
\* names, and ScanAll has returned
C11_Witness ==
    /\ sa.pc = "returned" /\ Len(sa.out) = 3
    /\ \E k \in DOMAIN worker :
           /\ worker[k].pc = "done" /\ Len(worker[k].tmp) = 0
           /\ worker[k].items # <<>>
           /\ sa.out[1].Category # sa.targets[k].Name

\* C12: ScanAll returns only when every goroutine it started has finished,
\* and what it returns holds one result for each scanned target that had
\* items, none for a target without items, and nothing else.
C12_OneResultEach ==
    sa.pc = "returned" =>
        /\ \A k \in DOMAIN worker : worker[k].pc \in {"none", "done"}
        /\ \A k \in Scanned :
               Cardinality({i \in 1..Len(sa.out) : sa.out[i].Category = sa.targets[k].Name})
                   = IF scanTarget(sa.targets[k], env.wl, files, env) = <<>> THEN 0 ELSE 1
        /\ Len(sa.out) = Cardinality({k \in Scanned : worker[k].items # <<>>})

\* ScanAll has returned two results; a third target was scanned and had
\* no items
C12_Witness ==
    /\ sa.pc = "returned" /\ Len(sa.out) = 2
    /\ \E k \in Scanned : worker[k].pc = "done" /\ worker[k].items = <<>>

(***************************************************************************)
(* One DryRunContext shared by goroutines that call Add.  Add locks the    *)
(* mutex, appends to Items (a read and a write of the slice) and unlocks   *)
(* as it returns.                                                          *)
(***************************************************************************)
AdderOrder == <<"g1", "g2", "g3">>

Adders == {AdderOrder[i] : i \in 1..Len(AdderOrder)}

\* Add calls each goroutine makes
MaxAdds == 1

\* what the goroutines add: two entries share a size, two share a path
AddEntries ==
    { LedgerEntry(OnC(<<nmCache, nmC1>>), 1, "user"),
      LedgerEntry(OnC(<<nmCache, nmC2>>), 1, "user"),
      LedgerEntry(OnC(<<nmCache, nmC2>>), 2, "dev") }

IdleAdder == [pc |-> "idle", entry |-> <<>>, tmp |-> <<>>, added |-> <<>>]

\* a goroutine calls Add(path, size, category)
drcAdd_Call ==
    /\ \E g \in Adders, entry \in AddEntries :
         /\ adder[g].pc = "idle"
         /\ Len(adder[g].added) < MaxAdds
         /\ adder' = [adder EXCEPT ![g].pc = "lock", ![g].entry = entry]
    /\ UNCHANGED <<dctx, guardVars, execVars, cleanVars, wlVars, uiVars, scanVars, storeVars>>

CanLockLedger_NoWait(mu) == TRUE

\* d.mu.Lock() goes through when nobody holds the mutex ("none")
CanLockLedger(mu) == mu = "none"

\* d.mu.Lock()
drcAdd_Lock ==
    /\ \E g \in Adders :
         /\ adder[g].pc = "lock"
         /\ CanLockLedger(dctx.mu)
         /\ dctx' = [dctx EXCEPT !.mu = g]
         /\ adder' = [adder EXCEPT ![g].pc = "read"]
    /\ UNCHANGED <<guardVars, execVars, cleanVars, wlVars, uiVars, scanVars, storeVars>>

\* append(d.Items, DryRunItem{...}) reads the slice ...
drcAdd_Read ==
    /\ \E g \in Adders :
         /\ adder[g].pc = "read"
         /\ adder' = [adder EXCEPT ![g].tmp = dctx.Items, ![g].pc = "write"]
    /\ UNCHANGED <<dctx, guardVars, execVars, cleanVars, wlVars, uiVars, scanVars, storeVars>>

\* ... and d.Items = stores what it read with the new item after it
drcAdd_Write ==
    /\ \E g \in Adders :
         /\ adder[g].pc = "write"
         /\ dctx' = [dctx EXCEPT !.Items = Append(adder[g].tmp, adder[g].entry)]
         /\ adder' = [adder EXCEPT ![g].pc = "unlock"]
    /\ UNCHANGED <<guardVars, execVars, cleanVars, wlVars, uiVars, scanVars, storeVars>>

\* the deferred d.mu.Unlock(): Add returns
drcAdd_Unlock ==
    /\ \E g \in Adders :
         /\ adder[g].pc = "unlock"
         /\ dctx' = [dctx EXCEPT !.mu = IF @ = g THEN "none" ELSE @]
         /\ adder' = [adder EXCEPT ![g].pc = "idle", ![g].tmp = <<>>,
                                   ![g].added = Append(@, adder[g].entry)]
    /\ UNCHANGED <<guardVars, execVars, cleanVars, wlVars, uiVars, scanVars, storeVars>>

\* DryRunContext.Count
Count(items) == Len(items)

LedgerInit ==
    /\ GuardIdle /\ ExecIdle /\ CleanIdle /\ WlIdle /\ ScanIdle /\ StoreIdle /\ UiIdle
    /\ dctx = [Items |-> <<>>, mu |-> "none"]
    /\ adder = [g \in Adders |-> IdleAdder]

LedgerNext ==
    \/ drcAdd_Call
    \/ drcAdd_Lock
    \/ drcAdd_Read
    \/ drcAdd_Write
    \/ drcAdd_Unlock

SpecLedger == LedgerInit /\ [][LedgerNext]_vars

\* how often x occurs in the sequence s
Occurs(x, s) == Cardinality({i \in 1..Len(s) : s[i] = x})

\* the Add calls that have returned
Returns == SumOf([i \in 1..Len(AdderOrder) |-> Len(adder[AdderOrder[i]].added)])

\* C13: once every Add call made has returned, Count() is the number of
\* calls and TotalSize() the sum of their sizes, and Items holds each entry
\* as often as it was added, unaltered: whatever the interleaving.
C13_NoAddLost ==
    (\A g \in Adders : adder[g].pc = "idle") =>
        /\ Count(dctx.Items) = Returns
        /\ TotalSize(dctx.Items)
               = SumOf([i \in 1..Len(AdderOrder) |-> TotalSize(adder[AdderOrder[i]].added)])
        /\ \A entry \in AddEntries :
               Occurs(entry, dctx.Items)
                   = SumOf([i \in 1..Len(AdderOrder) |-> Occurs(entry, adder[AdderOrder[i]].added)])

\* three goroutines have each added a different entry and returned; the
\* entry of the third stands first, that of the first last
C13_Witness ==
    /\ \A g \in Adders : adder[g].pc = "idle" /\ Len(adder[g].added) = 1
    /\ Count(dctx.Items) = 3 /\ TotalSize(dctx.Items) = 4
    /\ dctx.Items[1] = adder["g3"].added[1]
    /\ dctx.Items[3] = adder["g1"].added[1]

(***************************************************************************)
(* The Whitelist used by one caller: Load from the whitelist file, Add,    *)
(* Remove, Save and IsWhitelisted, each call whole.  The file is a list of *)
(* lines; the log keeps the calls made since the first Load.               *)
(***************************************************************************)
\* calls made on the whitelist after it was loaded
MaxOps == 3

\* whitelist.defaultPatterns
defaultPatterns ==
    << <<"%", "U", "S", "E", "R", "P", "R", "O", "F", "I", "L", "E", "%", "\\", ".", "c", "a", "r", "g", "o", "\\", "b", "i", "n", "\\", "*">>,
       <<"%", "L", "O", "C", "A", "L", "A", "P", "P", "D", "A", "T", "A", "%", "\\", "J", "e", "t", "B", "r", "a", "i", "n", "s", "\\", "*">>,
       <<"%", "A", "P", "P", "D", "A", "T", "A", "%", "\\", "C", "o", "d", "e", "\\", "U", "s", "e", "r", "\\", "*">> >>

\* the comment lines Save writes before the patterns
SaveHeader ==
    << <<"#", " ", "P", "u", "r", "e", "W", "i", "n", " ", "w", "h", "i", "t", "e", "l", "i", "s", "t">>,
       <<"#", " ", "L", "i", "n", "e", "s", " ", "s", "t", "a", "r", "t", "i", "n", "g", " ", "w", "i", "t", "h", " ", "#", " ", "a", "r", "e", " ", "c", "o", "m", "m", "e", "n", "t", "s">>,
       <<"#", " ", "E", "n", "v", "i", "r", "o", "n", "m", "e", "n", "t", " ", "v", "a", "r", "i", "a", "b", "l", "e", "s", " ", "a", "r", "e", " ", "e", "x", "p", "a", "n", "d", "e", "d", " ", "a", "t", " ", "r", "u", "n", "t", "i", "m", "e">>,
       <<>> >>

\* the lines a text makes in a file: it is cut at every newline
RECURSIVE LinesOf(_)
LinesOf(text) ==
    LET nl == {i \in 1..Len(text) : text[i] = "\n"}
        Cut(i) == <<SubSeq(text, 1, i - 1)>> \o LinesOf(SubSeq(text, i + 1, Len(text)))
    IN  IF nl = {} THEN <<text>> ELSE Cut(CHOOSE i \in nl : \A j \in nl : i <= j)

\* the lines the patterns make, each written with a newline after it
RECURSIVE PatternLines(_)
PatternLines(patterns) ==
    IF patterns = <<>> THEN <<>>
    ELSE LinesOf(Head(patterns)) \o PatternLines(Tail(patterns))

\* Whitelist.Save: the header, then every pattern followed by a newline
Save(patterns) == SaveHeader \o PatternLines(patterns)

\* Load's loop over the lines of the file: each line trimmed, empty lines
\* and lines starting with # skipped, every other line appended as it is
RECURSIVE ScanLines(_)
ScanLines(lines) ==
    IF lines = <<>> THEN <<>>
    ELSE LET Line(line) ==
                 IF line = <<>> \/ Head(line) = "#" THEN <<>> ELSE <<line>>
         IN  Line(TrimSpace(Head(lines))) \o ScanLines(Tail(lines))

\* whitelist.Load: a missing file gives the default patterns, which are
\* saved; otherwise the patterns are the lines of the file
Load(file) ==
    IF file = "missing"
    THEN [patterns |-> defaultPatterns, file |-> Save(defaultPatterns)]
    ELSE [patterns |-> ScanLines(file), file |-> file]

Add_ExactDuplicate(patterns, pattern) ==
    LET Dup(p) == \E i \in 1..Len(patterns) : patterns[i] = p
        Checked(p, verr) ==
            IF p = <<>> THEN [patterns |-> patterns, err |-> "pattern cannot be empty"]
            ELSE IF verr # "nil" THEN [patterns |-> patterns, err |-> verr]
            ELSE IF Dup(p) THEN [patterns |-> patterns, err |-> "pattern already exists"]
            ELSE [patterns |-> Append(patterns, p), err |-> "nil"]
        Trimmed(p) == Checked(p, validatePattern(p))
    IN  Trimmed(TrimSpace(pattern))

\* Whitelist.Add: the pattern trimmed, rejected when empty, too broad or
\* already there (whatever its case), appended otherwise
Add(patterns, pattern) ==
    LET Dup(p) == \E i \in 1..Len(patterns) : EqualFold(patterns[i], p)
        Checked(p, verr) ==
            IF p = <<>> THEN [patterns |-> patterns, err |-> "pattern cannot be empty"]
            ELSE IF verr # "nil" THEN [patterns |-> patterns, err |-> verr]
            ELSE IF Dup(p) THEN [patterns |-> patterns, err |-> "pattern already exists"]
            ELSE [patterns |-> Append(patterns, p), err |-> "nil"]
        Trimmed(p) == Checked(p, validatePattern(p))
    IN  Trimmed(TrimSpace(pattern))

Remove_ReportOnly(patterns, pattern) == [patterns |-> patterns, err |-> "nil"]

\* Whitelist.Remove: the first stored pattern equal to the trimmed one,
\* whatever its case, is taken out
Remove(patterns, pattern) ==
    LET Hits(p) == {i \in 1..Len(patterns) : EqualFold(patterns[i], p)}
        Cut(i) == SubSeq(patterns, 1, i - 1) \o SubSeq(patterns, i + 1, Len(patterns))
        First(hits) == CHOOSE i \in hits : \A j \in hits : i <= j
        Found(p, hits) ==
            IF p = <<>> THEN [patterns |-> patterns, err |-> "pattern cannot be empty"]
            ELSE IF hits = {} THEN [patterns |-> patterns, err |-> "pattern not found"]
            ELSE [patterns |-> Cut(First(hits)), err |-> "nil"]
        Trimmed(p) == Found(p, Hits(p))
    IN  Trimmed(TrimSpace(pattern))

patRootDot == <<"C", Colon, BS, ".", BS>>
patTempXY == <<"%", "T", "E", "M", "P", "%", BS>> \o nmX \o <<BS, "y">>
patTStar == OnC(<<nmT, <<"*">> >>)
patAB == patA \o <<BS>> \o nmB
patHash == <<"#">> \o nmT \o <<BS, "a", BS, "*">>
patTwoLines == patA \o <<"\n">> \o patC

\* whitelist files found at Load: none, an empty one, one edited by hand,
\* one that holds a directory pattern
WhitelistFiles ==
    { "missing", << <<>> >>,
      << <<"#", " ", "k", "e", "e", "p">>, <<>>, <<" ">> \o patB \o <<" ">>, <<"*">> >>,
      << patA >> }

\* patterns handed to Add and Remove
StoreArgs ==
    { patA, <<" ">> \o patC, ToUpper(patA), patAB, patTStar, patTempXY,
      <<"*">>, <<"*", "*">>, <<"C", Colon>>, <<"C", Colon, BS>>, <<"C", Colon, Slash>>,
      <<"C", Colon, BS, "*">>, OnC(<<nmT>>), nmT, <<" ">>, patRootDot, patHash, patTwoLines }

\* paths IsWhitelisted is asked about: C:\t\ab, C:\T\A\x, C:\t\x\y,
\* C:\t\a\..\a, C:\t\q and C:\t\q\r
StorePaths ==
    { OnC(<<nmT, <<"a", "b">> >>), ToUpper(patA) \o <<BS>> \o nmX, OnC(<<nmT, nmX, <<"y">> >>),
      patA \o <<BS>> \o nmDots \o <<BS, "a">>, OnC(<<nmT, <<"q">> >>),
      OnC(<<nmT, <<"q">>, <<"r">> >>) }

LogEntry(op, arg, err, res, before) ==
    [op |-> op, arg |-> arg, err |-> err, res |-> res, before |-> before]

\* whitelist.Load(path) for whatever file is there
Store_Load ==
    /\ store.pc = "idle"
    /\ \E file \in WhitelistFiles :
         LET Loaded(l) == [pc |-> "loaded", file |-> l.file, patterns |-> l.patterns,
                           found |-> file, log |-> <<>>]
         IN  store' = Loaded(Load(file))
    /\ UNCHANGED <<guardVars, execVars, cleanVars, wlVars, uiVars, scanVars, ledgerVars>>

CanOp == store.pc = "loaded" /\ Len(store.log) < MaxOps

\* w.Add(pattern)
Store_Add ==
    /\ CanOp
    /\ \E arg \in StoreArgs :
         LET Done(a) ==
                 [store EXCEPT !.patterns = a.patterns,
                               !.log = Append(@, LogEntry("Add", arg, a.err, "none", store.patterns))]
         IN  store' = Done(Add(store.patterns, arg))
    /\ UNCHANGED <<guardVars, execVars, cleanVars, wlVars, uiVars, scanVars, ledgerVars>>

\* w.Remove(pattern)
Store_Remove ==
    /\ CanOp
    /\ \E arg \in StoreArgs :
         LET Done(a) ==
                 [store EXCEPT !.patterns = a.patterns,
                               !.log = Append(@, LogEntry("Remove", arg, a.err, "none", store.patterns))]
         IN  store' = Done(Remove(store.patterns, arg))
    /\ UNCHANGED <<guardVars, execVars, cleanVars, wlVars, uiVars, scanVars, ledgerVars>>

\* w.IsWhitelisted(path), asked about the pattern of the call before, of
\* the first call, or about a path
Store_IsWhitelisted ==
    /\ CanOp
    /\ store.log # <<>>
    /\ \E arg \in {store.log[Len(store.log)].arg, store.log[1].arg} \cup StorePaths :
         store' = [store EXCEPT !.log =
                       Append(@, LogEntry("IsWhitelisted", arg, "nil",
                                          IsWhitelisted(store.patterns, arg, env),
                                          store.patterns))]
    /\ UNCHANGED <<guardVars, execVars, cleanVars, wlVars, uiVars, scanVars, ledgerVars>>

\* w.Save()
Store_Save ==
    /\ CanOp
    /\ store' = [store EXCEPT !.file = Save(store.patterns),
                              !.log = Append(@, LogEntry("Save", <<>>, "nil", "none",
                                                         store.patterns))]
    /\ UNCHANGED <<guardVars, execVars, cleanVars, wlVars, uiVars, scanVars, ledgerVars>>

\* whitelist.Load(path) again, of the file as it is now
Store_Reload ==
    /\ CanOp
    /\ store' = [store EXCEPT !.patterns = Load(store.file).patterns,
                              !.log = Append(@, LogEntry("Load", <<>>, "nil", "none",
                                                         store.patterns))]
    /\ UNCHANGED <<guardVars, execVars, cleanVars, wlVars, uiVars, scanVars, ledgerVars>>

StoreEnvs ==
    {[isAdmin |-> FALSE, temp |-> OnC(<<nmT>>), wl |-> <<>>, recycleBin |-> 0,
      dryRunMode |-> FALSE]}

StoreInit ==
    /\ GuardIdle /\ ExecIdle /\ WlIdle /\ ScanIdle /\ LedgerIdle /\ StoreIdle /\ UiIdle
    /\ env \in StoreEnvs
    /\ run = NoRun
    /\ drc = NoLedger
    /\ calls = <<>>

StoreNext ==
    \/ Store_Load
    \/ Store_Add
    \/ Store_Remove
    \/ Store_IsWhitelisted
    \/ Store_Save
    \/ Store_Reload

SpecStore == StoreInit /\ [][StoreNext]_vars

\* the universal wildcard
IsWildcard(p) == p \in {<<"*">>, <<"*", "*">>}

\* a drive and nothing more: X: itself, or a path that cleans to X:\
IsDriveRoot(p) ==
    \/ Len(p) = 2 /\ IsLetter(p[1]) /\ p[2] = Colon
    \/ LET Root(c) == Len(c) = 3 /\ IsLetter(c[1]) /\ c[2] = Colon /\ c[3] = PathSeparator
       IN  Root(Clean(p))

SeparatorCount(p) == Cardinality({i \in 1..Len(p) : IsSlash(p[i])})

\* the patterns the whitelist is to keep out
TooBroad(pattern) ==
    LET Is(p) == IsWildcard(p) \/ IsDriveRoot(p) \/ SeparatorCount(p) < 2
    IN  Is(TrimSpace(pattern))

\* the last call made on the whitelist
LastOp == store.log[Len(store.log)]

\* C14: whatever Load, Add and Remove calls were made, no stored pattern
\* is the universal wildcard, a drive root or a pattern with fewer than two
\* path separators.
C14_NoBroadEntry ==
    store.pc = "loaded" =>
        \A i \in 1..Len(store.patterns) : ~TooBroad(store.patterns[i])

\* p has no space around it and names no environment variable
Plain(p) == TrimSpace(p) = p /\ ExpandWindowsEnv(p, env) = p

\* the call at position i of the log was made with the pattern of the call
\* before it
Follows(i, first, second) ==
    /\ i + 1 <= Len(store.log)
    /\ store.log[i].op = first /\ store.log[i].err = "nil"
    /\ store.log[i + 1].op = second /\ store.log[i + 1].err = "nil"
    /\ store.log[i + 1].arg = store.log[i].arg

\* C15 for the patterns it holds for: after Add(p) succeeded, for p without
\* surrounding space or environment variable, IsWhitelisted(p) is true;
\* after a Remove(p) that follows, IsWhitelisted(p) is false unless a
\* pattern that was stored before the Add matches p.
C15_RoundTrip ==
    \A i \in 1..Len(IF store.pc = "loaded" THEN store.log ELSE <<>>) :
        /\ (Follows(i, "Add", "IsWhitelisted") /\ Plain(store.log[i].arg))
               => store.log[i + 1].res = TRUE
        /\ (Follows(i, "Add", "Remove") /\ Follows(i + 1, "Remove", "IsWhitelisted"))
               => store.log[i + 2].res
                      = IsWhitelisted(store.log[i].before, store.log[i].arg, env)

\* a glob pattern was added, removed again, and is not whitelisted after
C15_Witness ==
    /\ store.pc = "loaded" /\ Len(store.log) = 3
    /\ Follows(1, "Add", "Remove") /\ Follows(2, "Remove", "IsWhitelisted")
    /\ store.log[1].arg = patTStar
    /\ store.log[3].res = FALSE

\* C15 as the specification words it, for every pattern Add accepts:
\* IsWhitelisted(p) is true after Add(p) and false after a following
\* Remove(p).
C15_RoundTripAnyPattern ==
    \A i \in 1..Len(IF store.pc = "loaded" THEN store.log ELSE <<>>) :
        /\ Follows(i, "Add", "IsWhitelisted") => store.log[i + 1].res = TRUE
        /\ (Follows(i, "Add", "Remove") /\ Follows(i + 1, "Remove", "IsWhitelisted"))
               => store.log[i + 2].res = FALSE

\* C16: Add fails with a rejection and leaves the stored patterns as they
\* were whenever its pattern is a bare wildcard, resolves to a drive root,
\* or has fewer than two path separators.
C16_BroadRejected ==
    (store.pc = "loaded" /\ store.log # <<>> /\ LastOp.op = "Add" /\ TooBroad(LastOp.arg))
        => /\ LastOp.err \in {"pattern cannot be empty",
                              "pattern is too broad and would match everything",
                              "pattern is a drive root and too dangerous",
                              "pattern has fewer than 2 path separators and is too broad"}
           /\ store.patterns = LastOp.before

\* C17: with DryRunMode set in the configuration no command removes
\* anything: every call a command makes leaves the filesystem as it was.
C17_ConfigDryRunKeepsFiles ==
    env.dryRunMode => \A i \in 1..Len(calls) : calls[i].removed = {}

\* C18: a command that is not a dry run makes a deletion call only after
\* its confirmation prompt was answered with yes.
C18_ConfirmedFirst ==
    (run.cmd # "none" /\ ~run.dryRun /\ Mine # <<>>) => run.confirm = "yes"

\* C19: no step of the clean command removes a file whose path matches a
\* pattern of the whitelist.
C19_WhitelistedKept ==
    \A i \in 1..Len(calls) :
        calls[i].cmd = "clean" =>
            \A n \in calls[i].removed : ~IsWhitelisted(env.wl, NodePath(n), env)

\* C20: no item ScanAll returns has a path that IsWhitelisted accepts: a
\* whitelisted path of a target is skipped whole, a whitelisted file below
\* a scanned directory is left out.
C20_NoWhitelistedItem ==
    sa.pc = "returned" =>
        \A i \in 1..Len(sa.out) :
            \A j \in 1..Len(sa.out[i].Items) :
                ~IsWhitelisted(env.wl, sa.out[i].Items[j].Path, env)

\* elevated, with C:\Windows\Temp and %TEMP%\c5.tmp whitelisted and %TEMP%
\* being C:\cache: the user temp target gave four of the five files, the
\* system temp target gave nothing, Windows.old gave its file
C20_Witness ==
    /\ sa.pc = "returned" /\ env.isAdmin /\ env.wl # <<>>
    /\ env.temp = OnC(<<nmCache>>) /\ {"c5", "wt"} \subseteq files
    /\ Len(sa.targets) = 4 /\ Len(sa.out) = 2
    /\ sa.out[1].Category = nmUserTemp /\ sa.out[1].ItemCount = 4
    /\ sa.out[2].Category = nmWindowsOldTarget

(***************************************************************************)
(* C21, C22: the Executor on a path that is not there, and on one that is. *)
(***************************************************************************)
\* C21: SafeDelete(p, false) on a path the guard accepts and that does not
\* exist answers (0, nil) and leaves the filesystem as it was; so it does
\* when p is missing because an earlier call removed it.
C21_MissingIsSuccess ==
    (Called /\ xCall.op = "SafeDelete" /\ ~xCall.dryRun /\ xCall.verr = "nil"
        /\ Lstat(xCall.path, xCall.before) = "none")
    => /\ xCall.bytes = 0
       /\ xCall.err = "nil"
       /\ files = xCall.before

\* C:\safe\a.txt, the one object missing (an earlier call removed it), was
\* deleted a second time
C21_Witness ==
    /\ Called /\ xCall.op = "SafeDelete" /\ ~xCall.dryRun
    /\ xCall.path = OnC(<<nmSafe, nmA>>)
    /\ xCall.before = InitFiles \ {"a"}
    /\ xCall.bytes = 0 /\ xCall.err = "nil"
    /\ files = InitFiles \ {"a"}

\* C22: when SafeDelete(p, false) succeeds on an existing path, the object
\* p names and everything beneath it are gone afterwards, and the bytes
\* answered are the size the object had when the call was made.
C22_DeletedAndSized ==
    (Called /\ xCall.op = "SafeDelete" /\ ~xCall.dryRun /\ xCall.err = "nil"
        /\ Lstat(xCall.path, xCall.before) # "none")
    => LET Gone(n) ==
               /\ Under(n, xCall.before) \cap files = {}
               /\ files = xCall.before \ Under(n, xCall.before)
               /\ Lstat(xCall.path, files) = "none"
               /\ xCall.bytes = SizeOf(n, xCall.before)
       IN  Gone(Lstat(xCall.path, xCall.before))

\* C:\safe was removed after its file a.txt had gone: the answer is the
\* 2 bytes left in it, not the 3 it held at the start
C22_Witness ==
    /\ Called /\ xCall.op = "SafeDelete" /\ ~xCall.dryRun /\ xCall.err = "nil"
    /\ xCall.path = OnC(<<nmSafe>>)
    /\ xCall.before = InitFiles \ {"a"}
    /\ xCall.bytes = 2
    /\ SizeOf("safe", InitFiles) = 3
    /\ files \cap {"safe", "sub", "b", "lnk", "jmp", "gone"} = {}
    /\ "win" \in files

(***************************************************************************)
(* C23: the order of ValidatePath's checks.                                *)
(***************************************************************************)
\* the checks of ValidatePath in the order of the source, each by its own
\* condition: 1 empty, 2 not absolute, 3 drive root, 4 traversal component,
\* 5 control character, 6 protected path, 7 link to a protected target or
\* one that cannot be resolved
CheckFails(k, path, fs) ==
    CASE k = 1 -> IsBlank(path)
      [] k = 2 -> ~IsAbs(path)
      [] k = 3 -> LET Root(cleaned) ==
                          /\ Len(cleaned) >= 2 /\ Len(cleaned) <= 3
                          /\ cleaned[2] = Colon /\ IsLetter(cleaned[1])
                  IN  Root(Clean(path))
      [] k = 4 -> LET Has(parts) == \E i \in 1..Len(parts) : parts[i] = <<".", ".">>
                  IN  Has(Split(ToSlash(path), Slash))
      [] k = 5 -> \E i \in 1..Len(path) : IsControl(path[i]) /\ path[i] # "\t"
      [] k = 6 -> ~IsSafePath(path)
      [] k = 7 -> LET Bad(info) ==
                          /\ info # "none"
                          /\ KindOf(info) = "link"
                          /\ \/ EvalSymlinks(path, fs) = <<"error">>
                             \/ ~IsSafePath(EvalSymlinks(path, fs))
                  IN  Bad(Lstat(path, fs))

\* the reasons a check reports
CheckReasons(k) ==
    CASE k = 1 -> {"path is empty"}
      [] k = 2 -> {"path must be absolute"}
      [] k = 3 -> {"path is a drive root"}
      [] k = 4 -> {"path contains traversal component"}
      [] k = 5 -> {"path contains control character"}
      [] k = 6 -> {"path is protected and must NEVER be deleted"}
      [] k = 7 -> {"cannot resolve symlink", "symlink resolves to protected path"}

\* the checks a path fails
Failing(path, fs) == {k \in 1..7 : CheckFails(k, path, fs)}

\* C23: ValidatePath reports the reason of the first check, in the order
\* empty, not absolute, drive root, traversal component, control character,
\* protected path, link target, that the path fails, and accepts a path that
\* fails none; "", relative\x, C:\ and C:\a\..\..\b are rejected as empty,
\* not absolute, drive root and traversal.
C23_FirstFailingCheck ==
    gPhase = "out" =>
        LET First(failing) ==
                IF failing = {} THEN gErr = "nil"
                ELSE gErr \in CheckReasons(CHOOSE k \in failing : \A j \in failing : k <= j)
        IN  /\ First(Failing(gPath, InitFiles))
            /\ (gPath = <<>> => gErr = "path is empty")
            /\ (gPath = pathRelativeX => gErr = "path must be absolute")
            /\ (gPath = <<"C", Colon, BS>> => gErr = "path is a drive root")
            /\ (gPath = pathTwiceUp => gErr = "path contains traversal component")

\* C:\Users\..\..\Windows fails the traversal check and the protected-path
\* check, and was rejected for the traversal
C23_Witness ==
    /\ gPhase = "out"
    /\ gPath = OnC(<<Users, nmDots, nmDots, Windows>>)
    /\ Failing(gPath, InitFiles) = {4, 6}
    /\ gErr = "path contains traversal component"

\* C24: when ScanAll runs without elevation, a target that requires it gets
\* no goroutine, so none of its paths is read, and no result, empty or not,
\* carries its name.
C24_ElevatedTargetsAbsent ==
    (sa.pc # "idle" /\ ~env.isAdmin) =>
        \A k \in 1..Len(sa.targets) :
            sa.targets[k].RequiresAdmin =>
                /\ worker[k].pc = "none"
                /\ worker[k].items = <<>>
                /\ \A i \in 1..Len(sa.results) : sa.results[i].Category # sa.targets[k].Name
                /\ \A i \in 1..Len(sa.out) : sa.out[i].Category # sa.targets[k].Name

\* not elevated, nothing whitelisted, C:\Windows\Temp\x and C:\Windows.old
\* present: ScanAll over all targets returned the user temp result alone
C24_Witness ==
    /\ sa.pc = "returned" /\ ~env.isAdmin /\ env.wl = <<>>
    /\ {"wt", "wo"} \subseteq files
    /\ sa.targets = GetCleanTargets(env)
    /\ \E k \in 1..Len(sa.targets) :
           /\ sa.targets[k].Name = nmSystemTemp
           /\ sa.targets[k].RequiresAdmin
           /\ scanTarget(sa.targets[k], env.wl, files, env) # <<>>
    /\ Len(sa.out) = 1
    /\ sa.out[1].Category = nmUserTemp

\* C25: every result a goroutine of ScanAll has appended, and every result
\* ScanAll returns, has TotalSize equal to the sum of its items' sizes and
\* ItemCount equal to the number of its items.
C25_TotalsMatchItems ==
    sa.pc # "idle" =>
        LET Sound(r) ==
                /\ r.TotalSize = SumOf([j \in 1..Len(r.Items) |-> r.Items[j].Size])
                /\ r.ItemCount = Len(r.Items)
        IN  /\ \A i \in 1..Len(sa.results) : Sound(sa.results[i])
            /\ \A i \in 1..Len(sa.out) : Sound(sa.out[i])

\* the user temp result over C:\cache with nothing whitelisted: five files
\* of 1, 2, 4, 8 and 16 bytes, 31 in all
C25_Witness ==
    /\ sa.pc = "returned" /\ env.wl = <<>> /\ env.temp = OnC(<<nmCache>>)
    /\ \E i \in 1..Len(sa.out) :
           /\ sa.out[i].Category = nmUserTemp
           /\ sa.out[i].ItemCount = 5
           /\ sa.out[i].TotalSize = 31
           /\ \A j \in 1..5 : sa.out[i].Items[j].Size < 31

\* C26: ScanAll over the one target Temp with path %TEMP%, the temp
\* directory C:\work holding f10.tmp, f20.tmp and f30.tmp of 10, 20 and 30
\* bytes and %TEMP%\f20.tmp whitelisted, returns one result whose items are
\* f10.tmp and f30.tmp and whose TotalSize is 40.
C26_TempScenario ==
    (/\ sa.pc = "returned" /\ sa.targets = TempTargets
     /\ env.temp = OnC(<<nmWork>>) /\ Len(env.wl) = 1
     /\ {"f10", "f20", "f30"} \subseteq files)
    => /\ Len(sa.out) = 1
       /\ Len(sa.out[1].Items) = 2
       /\ {sa.out[1].Items[j].Path : j \in 1..2} = {OnC(<<nmWork, nmF10>>), OnC(<<nmWork, nmF30>>)}
       /\ sa.out[1].TotalSize = 40

(***************************************************************************)
(* C27..C30: links, spellings and neighbours of the NEVER_DELETE entries.  *)
(***************************************************************************)
\* the object a path names once every link in it is resolved
Denoted(path, fs) == Lookup(path, fs, TRUE)

\* C27: a path whose last element exists and is a symbolic link is rejected
\* by ValidatePath when the link resolves to a NEVER_DELETE entry or to
\* something under one, and when the link cannot be resolved.
C27_LinkToProtectedRejected ==
    (gPhase = "out" /\ Lstat(gPath, InitFiles) # "none"
        /\ KindOf(Lstat(gPath, InitFiles)) = "link")
    => LET Rejected(target) ==
               (target = "none" \/ ProtectedNode(target)) => gErr # "nil"
       IN  Rejected(Denoted(gPath, InitFiles))

\* C:\lk\hop, a link to the link C:\safe\lnk to C:\Windows, passed every
\* check on its text and was rejected for its target
C27_Witness ==
    /\ gPhase = "out"
    /\ gPath = OnC(<<nmLk, nmHop>>)
    /\ IsSafePath(gPath)
    /\ Denoted(gPath, InitFiles) = "win"
    /\ gErr = "symlink resolves to protected path"

\* C28: when ValidatePath accepts a path that exists, the object the path
\* denotes, links in any of its elements resolved, is no NEVER_DELETE entry
\* and lies under none.
C28_AcceptedDenotesUnprotected ==
    (gPhase = "out" /\ gErr = "nil" /\ Denoted(gPath, InitFiles) # "none")
    => ~ProtectedNode(Denoted(gPath, InitFiles))

\* the cleaned path is an entry of NEVER_DELETE, letter case apart, or goes
\* on after one with a separator
AtOrBelowEntry(path) ==
    LET Meets(c, e) ==
            /\ Len(c) >= Len(e)
            /\ EqualFold(SubSeq(c, 1, Len(e)), e)
            /\ (Len(c) = Len(e) \/ c[Len(e) + 1] = PathSeparator)
        Some(c) == \E i \in 1..Len(GetNeverDeletePaths) : Meets(c, Clean(GetNeverDeletePaths[i]))
    IN  Some(Clean(path))

\* C29: IsSafePath reports a path as protected only when its cleaned form
\* is a NEVER_DELETE entry or continues one at a separator; C:\Windows.old
\* and C:\UsersBackup\x, which only begin like an entry, are reported safe.
C29_OnlyAtSeparator ==
    gPhase = "out" =>
        /\ (gSafe = FALSE => AtOrBelowEntry(gPath))
        /\ (gPath \in {OnC(<<WindowsOld>>), OnC(<<nmUsersBackup, nmX>>)} => gSafe = TRUE)

\* C:\Windows.old\old.sys begins with the characters of C:\Windows and was
\* reported safe and accepted
C29_Witness ==
    /\ gPhase = "out"
    /\ gPath = OnC(<<WindowsOld, nmOldSys>>)
    /\ HasPrefix(gPath, OnC(<<Windows>>))
    /\ gSafe = TRUE
    /\ gErr = "nil"

\* the cleaned path is a proper ancestor of a NEVER_DELETE entry: the entry
\* goes on after it with a separator (after the root, which ends in one)
AboveEntry(path) ==
    LET Meets(c, e) ==
            /\ Len(e) > Len(c)
            /\ EqualFold(SubSeq(e, 1, Len(c)), c)
            /\ (e[Len(c) + 1] = PathSeparator \/ (c # <<>> /\ c[Len(c)] = PathSeparator))
        Some(c) == \E i \in 1..Len(GetNeverDeletePaths) : Meets(c, Clean(GetNeverDeletePaths[i]))
    IN  Some(Clean(path))

\* C30: ValidatePath rejects every path that is a proper ancestor of a
\* NEVER_DELETE entry, and no directory it accepts has a protected object
\* anywhere beneath it.
C30_NothingProtectedBeneath ==
    gPhase = "out" =>
        /\ (AboveEntry(gPath) => gErr # "nil")
        /\ LET Clear(n) ==
                   (n # "none" /\ KindOf(n) = "dir")
                   => \A m \in Under(n, InitFiles) : ~ProtectedNode(m)
           IN  gErr = "nil" => Clear(Lstat(gPath, InitFiles))

(***************************************************************************)
(* C31: what IsWhitelisted answers.                                        *)
(***************************************************************************)
\* the three ways a pattern, expanded and cleaned, covers a cleaned path
SameIgnoringCase(p, c) == ToLower(p) = ToLower(c)
GlobIgnoringCase(p, c) == Match(ToLower(p), ToLower(c))
NestedAtSeparator(p, c) ==
    /\ ~hasMeta(p)
    /\ Len(c) > Len(p)
    /\ ToLower(SubSeq(c, 1, Len(p))) = ToLower(p)
    /\ c[Len(p) + 1] = PathSeparator

\* C31: IsWhitelisted(path) is true exactly when some stored pattern, its
\* environment variables expanded and the result cleaned, equals the cleaned
\* path but for letter case, glob-matches it without regard to case, or has
\* no glob character and the path goes on after it with a separator; the
\* call leaves the stored patterns as they were.
C31_ExactGlobOrNested ==
    \A i \in 1..Len(IF store.pc = "loaded" THEN store.log ELSE <<>>) :
        store.log[i].op = "IsWhitelisted" =>
            LET Covers(p, c) ==
                    SameIgnoringCase(p, c) \/ GlobIgnoringCase(p, c) \/ NestedAtSeparator(p, c)
                Some(ps, c) ==
                    \E k \in 1..Len(ps) : Covers(Clean(ExpandWindowsEnv(ps[k], env)), c)
            IN  /\ store.log[i].res = Some(store.log[i].before, Clean(store.log[i].arg))
                /\ (i < Len(store.log) => store.log[i + 1].before = store.log[i].before)
                /\ (i = Len(store.log) => store.patterns = store.log[i].before)

\* with C:\t\a stored, C:\t\ab is not whitelisted and C:\T\A\x is
C31_Witness ==
    /\ store.pc = "loaded" /\ Len(store.log) = 3
    /\ store.patterns = <<patA>>
    /\ store.log[2].op = "IsWhitelisted" /\ store.log[2].arg = OnC(<<nmT, <<"a", "b">> >>)
    /\ store.log[2].res = FALSE
    /\ store.log[3].op = "IsWhitelisted" /\ store.log[3].arg = ToUpper(patA) \o <<BS>> \o nmX
    /\ store.log[3].res = TRUE

\* C32: every item ScanAll returns is a regular file: no item's path is
\* that of a symbolic link, at the top of a target or below a scanned
\* directory.
C32_OnlyRegularFiles ==
    sa.pc = "returned" =>
        \A i \in 1..Len(sa.out) :
            \A j \in 1..Len(sa.out[i].Items) :
                LET Regular(n) == n # "none" /\ KindOf(n) = "file"
                IN  Regular(Lstat(sa.out[i].Items[j].Path, files))

\* C33: among all items of the results one ScanAll call returns, no two
\* have the same path.
C33_EachPathOnce ==
    sa.pc = "returned" =>
        LET items == AllItems(sa.out)
        IN  \A i, j \in 1..Len(items) : items[i].Path = items[j].Path => i = j

(***************************************************************************)
(* C34: what CleanInstallers and PurgeArtifacts return.                    *)
(***************************************************************************)
(***************************************************************************)
(* The cleanup operations that take a dryRun flag and are not loops over   *)
(* items, each call whole.  cmds is what the call ran or asked besides     *)
(* reading: external commands, service commands, prompts.                  *)
(***************************************************************************)
Outcome(bytes, err, fs, cmds) == [bytes |-> bytes, err |-> err, files |-> fs, cmds |-> cmds]

\* core.SafeCleanDir(dir, "*", dryRun): every entry of dir goes through
\* SafeDelete in turn; the bytes of the entries that succeeded, the last
\* error met
RECURSIVE CleanEntries(_, _, _, _)
CleanEntries(paths, dryRun, st, locked) ==
    IF paths = <<>> THEN st
    ELSE LET Next1(ans) ==
                 Outcome(st.bytes + (IF ans.err = "nil" THEN ans.bytes ELSE 0),
                         IF ans.err = "nil" THEN st.err ELSE ans.err, ans.files, st.cmds)
         IN  CleanEntries(Tail(paths), dryRun,
                          Next1(SafeDelete(Head(paths), dryRun, st.files, locked)), locked)

SafeCleanDir(dir, dryRun, fs, locked) ==
    CleanEntries(Glob(dir \o <<PathSeparator, "*">>, fs), dryRun, Outcome(0, "nil", fs, <<>>), locked)

\* core.GetDirSize, 0 for a directory that is not there
GetDirSize(dir, fs) ==
    LET Size(n) == IF n = "none" THEN 0 ELSE SizeOf(n, fs)
    IN  Size(Lookup(dir, fs, TRUE))

\* clean.CleanGoModCache(dryRun) with its commands: nothing without the go
\* tool or the cache; the size under dry-run; else "go clean -modcache"
GoModCacheCall(dryRun, fs, installed, fail) ==
    LET Ran(ans, present) ==
            Outcome(ans.bytes, ans.err, ans.files,
                    IF present /\ ~dryRun THEN <<"go clean -modcache">> ELSE <<>>)
    IN  IF ~installed THEN Outcome(0, "nil", fs, <<>>)
        ELSE Ran(CleanGoModCache(dryRun, fs, fail), Lookup(OnC(<<nmGoMod>>), fs, TRUE) # "none")

\* clean.CleanDockerBuildCache(dryRun): nothing without docker; under
\* dry-run what DockerBuildCacheSize reads from "docker system df"; else
\* "docker builder prune -af", and 0 whatever it reclaimed
CleanDockerBuildCache(dryRun, fs, installed, cacheSize, fail) ==
    IF ~installed THEN Outcome(0, "nil", fs, <<>>)
    ELSE IF dryRun THEN Outcome(cacheSize, "nil", fs, <<"docker system df">>)
    ELSE IF fail THEN Outcome(0, "IOError", fs, <<"docker builder prune -af">>)
    ELSE Outcome(0, "nil", fs, <<"docker builder prune -af">>)

pathDownload == OnC(<<Windows, nmSoftwareDistribution, nmDownload>>)

\* clean.CleanWindowsUpdate(dryRun): elevation, the size of the download
\* directory, which is all under dry-run; else the service is stopped, the
\* directory cleaned and the service started again
CleanWindowsUpdate(dryRun, fs, e, stopFails, startFails, locked) ==
    LET Cleaned(c) ==
            IF startFails
            THEN Outcome(IF c.err # "nil" THEN 0 ELSE c.bytes, "ServiceError", c.files,
                         <<"net stop wuauserv", "net start wuauserv">>)
            ELSE IF c.err # "nil"
            THEN Outcome(0, c.err, c.files, <<"net stop wuauserv", "net start wuauserv">>)
            ELSE Outcome(c.bytes, "nil", c.files, <<"net stop wuauserv", "net start wuauserv">>)
    IN  IF ~e.isAdmin THEN Outcome(0, "NotElevated", fs, <<>>)
        ELSE IF dryRun THEN Outcome(GetDirSize(pathDownload, fs), "nil", fs, <<>>)
        ELSE IF stopFails THEN Outcome(0, "ServiceError", fs, <<"net stop wuauserv">>)
        ELSE Cleaned(SafeCleanDir(pathDownload, FALSE, fs, locked))

\* clean.CleanWindowsOld(dryRun) with its prompt
WindowsOldCall(dryRun, fs, e, confirmed, locked) ==
    LET Ran(ans, present) ==
            Outcome(ans.bytes, ans.err, ans.files,
                    IF e.isAdmin /\ present /\ ~dryRun THEN <<"DangerConfirm">> ELSE <<>>)
    IN  Ran(CleanWindowsOld(dryRun, fs, e, confirmed, locked),
            Lookup(OnC(<<WindowsOld>>), fs, TRUE) # "none")

\* clean.CleanMemoryDumps(dryRun): elevation, then SafeDelete of the kernel
\* dump and SafeCleanDir of the minidump directory; the bytes of the calls
\* that succeeded, and never an error
CleanMemoryDumps(dryRun, fs, e, locked) ==
    LET Mini(d, m) ==
            Outcome((IF d.err = "nil" THEN d.bytes ELSE 0) + (IF m.err = "nil" THEN m.bytes ELSE 0),
                    "nil", m.files, <<>>)
        Dump(d) == Mini(d, SafeCleanDir(OnC(<<Windows, nmMinidump>>), dryRun, d.files, locked))
    IN  IF ~e.isAdmin THEN Outcome(0, "NotElevated", fs, <<>>)
        ELSE Dump(SafeDelete(OnC(<<Windows, nmMemoryDmp>>), dryRun, fs, locked))

\* what the call found outside the filesystem: the tool on the PATH, the
\* build cache docker reports
Found(installed, cache) == [installed |-> installed, cache |-> cache]

\* the run a whole call leaves behind
OpCalled(op, dryRun, out, inp) ==
    LET r == [Asked(Started(op, "done", "none", dryRun, <<>>, NoSizes, files), "unasked")
                 EXCEPT !.realRuns = run.realRuns + (IF dryRun THEN 0 ELSE 1)]
    IN  [f \in DOMAIN r \cup {"bytes", "err", "cmds", "inp"} |->
            CASE f = "bytes" -> out.bytes
              [] f = "err" -> out.err
              [] f = "cmds" -> out.cmds
              [] f = "inp" -> inp
              [] OTHER -> r[f]]

CleanGoModCache_Call ==
    /\ Idle
    /\ \E dryRun \in BOOLEAN, installed \in BOOLEAN, fail \in BOOLEAN :
         \E out \in {GoModCacheCall(dryRun, files, installed, fail)} :
            /\ files' = out.files
            /\ run' = OpCalled("CleanGoModCache", dryRun, out, Found(installed, 0))
    /\ UNCHANGED <<env, drc, calls, guardVars, xCall, wlVars, moreVars>>

\* what "docker system df" may report for the build cache
DockerCacheSizes == {0, 9}

CleanDockerBuildCache_Call ==
    /\ Idle
    /\ \E dryRun \in BOOLEAN, installed \in BOOLEAN, fail \in BOOLEAN, cache \in DockerCacheSizes :
         \E out \in {CleanDockerBuildCache(dryRun, files, installed, cache, fail)} :
            /\ files' = out.files
            /\ run' = OpCalled("CleanDockerBuildCache", dryRun, out, Found(installed, cache))
    /\ UNCHANGED <<env, drc, calls, guardVars, xCall, wlVars, moreVars>>

CleanWindowsUpdate_Call ==
    /\ Idle
    /\ \E dryRun \in BOOLEAN, stopFails \in BOOLEAN, startFails \in BOOLEAN, locked \in BOOLEAN :
         \E out \in {CleanWindowsUpdate(dryRun, files, env, stopFails, startFails, locked)} :
            /\ files' = out.files
            /\ run' = OpCalled("CleanWindowsUpdate", dryRun, out, Found(TRUE, 0))
    /\ UNCHANGED <<env, drc, calls, guardVars, xCall, wlVars, moreVars>>

CleanWindowsOld_Call ==
    /\ Idle
    /\ \E dryRun \in BOOLEAN, confirmed \in BOOLEAN, locked \in BOOLEAN :
         \E out \in {WindowsOldCall(dryRun, files, env, confirmed, locked)} :
            /\ files' = out.files
            /\ run' = OpCalled("CleanWindowsOld", dryRun, out, Found(TRUE, 0))
    /\ UNCHANGED <<env, drc, calls, guardVars, xCall, wlVars, moreVars>>

CleanMemoryDumps_Call ==
    /\ Idle
    /\ \E dryRun \in BOOLEAN, locked \in BOOLEAN :
         \E out \in {CleanMemoryDumps(dryRun, files, env, locked)} :
            /\ files' = out.files
            /\ run' = OpCalled("CleanMemoryDumps", dryRun, out, Found(TRUE, 0))
    /\ UNCHANGED <<env, drc, calls, guardVars, xCall, wlVars, moreVars>>

\* the two batch operations on their own, from the full filesystem
BatchInit ==
    /\ GuardIdle /\ ExecIdle /\ WlIdle /\ MoreIdle
    /\ env \in {e \in CleanEnvs : e.wl = <<>> /\ e.recycleBin = 0 /\ ~e.dryRunMode}
    /\ run = NoRun
    /\ drc = NoLedger
    /\ calls = <<>>

BatchNext ==
    \/ CleanInstallers_Start
    \/ CleanInstallers_Item
    \/ PurgeArtifacts_Start
    \/ PurgeArtifacts_Item
    \/ CleanGoModCache_Call
    \/ CleanDockerBuildCache_Call
    \/ CleanWindowsUpdate_Call
    \/ CleanWindowsOld_Call
    \/ CleanMemoryDumps_Call

SpecBatch == BatchInit /\ [][BatchNext]_vars

\* the path of item i of the batch under way
BatchPath(i) ==
    IF run.cmd = "purge" THEN run.items[i].ArtifactPath ELSE run.items[i].Path

\* C34: CleanInstallers and PurgeArtifacts pass every item to SafeDelete,
\* whichever of them fail; they return the bytes and the count of the items
\* that succeeded and the error of the last item that failed, nil when none
\* did.
C34_BestEffortSummary ==
    (run.cmd \in {"installer", "purge"} /\ run.pc = "done" /\ run.executed)
    => LET ok == {i \in 1..Len(Mine) : Mine[i].err = "nil"}
           failed == {i \in 1..Len(Mine) : Mine[i].err # "nil"}
       IN  /\ Len(Mine) = Len(run.items)
           /\ \A i \in 1..Len(Mine) : Mine[i].path = BatchPath(i)
           /\ run.totalCleaned = Cardinality(ok)
           /\ run.totalFreed = SumOf([i \in 1..Len(Mine) |->
                                         IF i \in ok THEN Mine[i].bytes ELSE 0])
           /\ (failed = {} <=> run.lastErr = "nil")
           /\ failed # {} =>
                  run.lastErr = Mine[CHOOSE i \in failed : \A j \in failed : j <= i].err

\* CleanInstallers on a file under C:\Users and a locked one: both failed,
\* differently, and the error returned is the second
C34_Witness ==
    /\ run.cmd = "installer" /\ run.pc = "done" /\ run.executed /\ ~run.dryRun
    /\ Len(Mine) = 2
    /\ Mine[1].err = "DeletionBlocked" /\ Mine[2].err = "IOError"
    /\ run.lastErr = "IOError"
    /\ run.totalCleaned = 0

\* PurgeArtifacts on three directories, the second refused by the guard:
\* the first and the third were removed and counted
C34_PurgeWitness ==
    /\ run.cmd = "purge" /\ run.pc = "done" /\ run.executed /\ ~run.dryRun
    /\ Len(Mine) = 3
    /\ Mine[2].err = "DeletionBlocked" /\ Mine[3].err = "nil"
    /\ run.lastErr = "DeletionBlocked"
    /\ run.totalCleaned = 2 /\ run.totalFreed = 62
    /\ files \cap {"sub", "b", "work", "f10", "f20", "f30"} = {}

\* C35: Save followed by Load of the same file gives the patterns the
\* whitelist held, in the same order, whatever successful Add and Remove
\* calls made the list.
C35_SaveLoadSame ==
    (store.pc = "loaded" /\ Len(store.log) >= 2 /\ LastOp.op = "Load"
        /\ store.log[Len(store.log) - 1].op = "Save")
        => store.patterns = LastOp.before

\* the whitelist started empty or with the default patterns and only Add
\* and Remove were called on it
OnlyAddRemove ==
    /\ store.pc = "loaded"
    /\ (IF store.log = <<>> THEN store.patterns ELSE store.log[1].before)
           \in {<<>>, defaultPatterns}
    /\ \A i \in 1..Len(store.log) : store.log[i].op \in {"Add", "Remove"}

\* the patterns held after call i of the log
PatternsAfter(i) ==
    IF i < Len(store.log) THEN store.log[i + 1].before ELSE store.patterns

\* C36: in a whitelist that started empty or with the default patterns and
\* saw only Add and Remove calls, no two stored patterns are equal ignoring
\* case, and an Add of a pattern equal ignoring case to a stored one fails
\* with "already exists" and leaves the patterns as they were.
C36_NoCaseDuplicates ==
    OnlyAddRemove =>
        /\ \A i, j \in 1..Len(store.patterns) :
               i # j => ~EqualFold(store.patterns[i], store.patterns[j])
        /\ \A k \in 1..Len(store.log) :
               LET e == store.log[k]
               IN  (e.op = "Add" /\ \E i \in 1..Len(e.before) : EqualFold(e.before[i], e.arg))
                       => /\ e.err = "pattern already exists"
                          /\ PatternsAfter(k) = e.before

\* C:\t\a was added to the default patterns, its upper-case spelling was
\* refused, and after a Remove by the upper-case spelling the defaults are
\* all that is left
C36_Witness ==
    /\ OnlyAddRemove /\ Len(store.log) = 3 /\ store.log[1].before = defaultPatterns
    /\ store.log[1].op = "Add" /\ store.log[1].arg = patA /\ store.log[1].err = "nil"
    /\ store.log[2].op = "Add" /\ store.log[2].arg = ToUpper(patA)
    /\ store.log[2].err = "pattern already exists"
    /\ store.log[3].op = "Remove" /\ store.log[3].arg = ToUpper(patA) /\ store.log[3].err = "nil"
    /\ store.patterns = defaultPatterns

\* the operations that are one call, and the two that are loops
SingleCalls ==
    {"CleanGoModCache", "CleanDockerBuildCache", "CleanWindowsUpdate", "CleanWindowsOld",
     "CleanMemoryDumps"}
BatchCalls == {"installer", "purge"}

\* what changes something outside the process: the cleaning commands, the
\* service commands, the prompt
ChangingCmds ==
    {"go clean -modcache", "docker builder prune -af", "net stop wuauserv",
     "net start wuauserv", "DangerConfirm"}

\* the filesystem after SafeDelete of each path in turn, nothing failing
RECURSIVE AfterDeleting(_, _)
AfterDeleting(paths, fs) ==
    IF paths = <<>> THEN fs
    ELSE AfterDeleting(Tail(paths), SafeDelete(Head(paths), FALSE, fs, FALSE).files)

\* the bytes the operation of the run under way removes when it is called
\* with dryRun = false on the filesystem the run started from, the prompt
\* answered with yes and nothing failing
WouldFree ==
    LET Gone(after) == SumSizes(run.before \ after)
    IN  CASE run.cmd = "CleanGoModCache" ->
                 Gone(GoModCacheCall(FALSE, run.before, run.inp.installed, FALSE).files)
          [] run.cmd = "CleanDockerBuildCache" ->
                 IF run.inp.installed THEN run.inp.cache ELSE 0
          [] run.cmd = "CleanWindowsUpdate" ->
                 Gone(CleanWindowsUpdate(FALSE, run.before, env, FALSE, FALSE, FALSE).files)
          [] run.cmd = "CleanWindowsOld" ->
                 Gone(WindowsOldCall(FALSE, run.before, env, TRUE, FALSE).files)
          [] run.cmd = "CleanMemoryDumps" ->
                 Gone(CleanMemoryDumps(FALSE, run.before, env, FALSE).files)
          [] OTHER ->
                 Gone(AfterDeleting([i \in 1..Len(run.items) |-> BatchPath(i)], run.before))

\* what the operation of the run under way returned
ReturnedBytes == IF run.cmd \in BatchCalls THEN run.totalFreed ELSE run.bytes

\* a dry run changes nothing: the filesystem is as it was, no prompt was
\* shown, no removal was made, no changing command was run
DryRunFrame ==
    /\ files = run.before
    /\ run.confirm = "unasked"
    /\ run.cmd \in BatchCalls => \A i \in 1..Len(Mine) : Mine[i].removed = {}
    /\ run.cmd \in SingleCalls => \A i \in 1..Len(run.cmds) : run.cmds[i] \notin ChangingCmds

\* C37: every cleanup operation called with dryRun = true deletes nothing,
\* stops or starts no service, asks for no confirmation, runs no cleaning
\* command, and returns the size it would free.
C37_DryRunOnlySizes ==
    (run.cmd \in SingleCalls \cup BatchCalls /\ run.dryRun)
        => /\ DryRunFrame
           /\ run.pc = "done" => ReturnedBytes = WouldFree

\* the part of C37 about what a dry run leaves alone
C37_DryRunChangesNothing ==
    (run.cmd \in SingleCalls \cup BatchCalls /\ run.dryRun) => DryRunFrame

\* C38: CleanMemoryDumps(false), called by an elevated process, removes the
\* kernel memory dump and the minidump files that are there and returns
\* the bytes it freed.
C38_DumpsRemoved ==
    (run.cmd = "CleanMemoryDumps" /\ ~run.dryRun /\ env.isAdmin)
        => /\ files \cap {"mdmp", "m1"} = {}
           /\ run.err = "nil"
           /\ run.bytes = SumSizes(run.before \cap {"mdmp", "m1"})

(***************************************************************************)
(* The disk analyzer's AnalyzeModel, in one directory.  Update handles a   *)
(* window size, a key, or the result of a deletion command; a deletion     *)
(* command runs SafeDelete outside Update and its result comes back as a   *)
(* message at any later time.                                              *)
(***************************************************************************)
\* deletions a session may ask for
MaxDeletes == 2

\* the children of the directory shown, and which of them are 100 MiB or more
AnalyzeEntries == <<"e1", "e2", "e3", "e4">>
LargeEntries == {"e1", "e3", "e4"}

\* window heights that arrive
AnalyzeHeights == {9, 24}

\* analyze.NewAnalyzeModel
NewAnalyzeModel ==
    [pc |-> "running", children |-> AnalyzeEntries, cursor |-> 0, offset |-> 0,
     height |-> 24, largeOnly |-> FALSE, confirmDelete |-> FALSE, quitting |-> FALSE,
     err |-> "nil", pending |-> {}, marked |-> "none", asked |-> <<>>]

\* AnalyzeModel.visibleItems, with no minimum size and no depth limit
AnalyzeVisible(m) ==
    SelectSeq(m.children, LAMBDA c : ~m.largeOnly \/ c \in LargeEntries)

\* AnalyzeModel.viewportHeight
viewportHeight(m) == IF m.height - 8 < 1 THEN 1 ELSE m.height - 8

\* AnalyzeModel.ensureVisible
ensureVisible(m) ==
    LET up == IF m.cursor < m.offset THEN [m EXCEPT !.offset = m.cursor] ELSE m
    IN  IF up.cursor >= up.offset + viewportHeight(up)
        THEN [up EXCEPT !.offset = up.cursor - viewportHeight(up) + 1] ELSE up

\* items[m.cursor], Go's index being one less than the position
UnderCursor(m) == AnalyzeVisible(m)[m.cursor + 1]
CursorInRange(m) == m.cursor >= 0 /\ m.cursor < Len(AnalyzeVisible(m))

\* Update for a key while the model waits for the confirming Enter: Enter
\* starts deleteEntry for the item the cursor is on now, any key ends the wait
KeyWhileConfirming(m, key) ==
    IF key = "enter" /\ CursorInRange(m)
    THEN [m EXCEPT !.confirmDelete = FALSE,
                   !.pending = @ \cup {UnderCursor(m)},
                   !.asked = Append(@, [marked |-> m.marked, sent |-> UnderCursor(m)])]
    ELSE [m EXCEPT !.confirmDelete = FALSE]

\* Update for a key otherwise
KeyWhileBrowsing(m, key) ==
    CASE key = "q" -> [m EXCEPT !.quitting = TRUE, !.pc = "quit"]
      [] key = "up" -> IF m.cursor > 0 THEN ensureVisible([m EXCEPT !.cursor = @ - 1]) ELSE m
      [] key = "down" ->
             IF m.cursor < Len(AnalyzeVisible(m)) - 1
             THEN ensureVisible([m EXCEPT !.cursor = @ + 1]) ELSE m
      [] key = "backspace" ->
             IF CursorInRange(m)
             THEN [m EXCEPT !.confirmDelete = TRUE, !.marked = UnderCursor(m)] ELSE m
      [] key = "L" -> [m EXCEPT !.largeOnly = ~@, !.cursor = 0, !.offset = 0]
      [] OTHER -> m

AnalyzeKeys == {"q", "up", "down", "backspace", "L", "enter"}

\* AnalyzeModel.removeEntry
removeEntry(m, path) ==
    LET hits == {i \in 1..Len(m.children) : m.children[i] = path}
        Cut(i) == SubSeq(m.children, 1, i - 1) \o SubSeq(m.children, i + 1, Len(m.children))
        Removed(rest) ==
            [m EXCEPT !.children = rest,
                      !.cursor = IF m.cursor >= Len(rest) /\ m.cursor > 0 THEN @ - 1 ELSE @]
    IN  IF hits = {} THEN m ELSE Removed(Cut(CHOOSE i \in hits : \A j \in hits : i <= j))

\* Update(tea.KeyMsg)
Analyze_Key ==
    /\ am.pc = "running"
    /\ \E key \in AnalyzeKeys :
         /\ (key = "backspace" /\ ~am.confirmDelete) => Len(am.asked) < MaxDeletes
         /\ am' = IF am.confirmDelete THEN KeyWhileConfirming(am, key)
                  ELSE KeyWhileBrowsing(am, key)
    /\ UNCHANGED <<guardVars, execVars, cleanVars, wlVars, scanVars, ledgerVars, storeVars, sm>>

\* Update(tea.WindowSizeMsg)
Analyze_WindowSize ==
    /\ am.pc = "running"
    /\ \E h \in AnalyzeHeights : am' = [am EXCEPT !.height = h]
    /\ UNCHANGED <<guardVars, execVars, cleanVars, wlVars, scanVars, ledgerVars, storeVars, sm>>

\* Update(deleteResultMsg) for a deletion command that has finished: an
\* error is kept, a success takes the entry out of the children
Analyze_DeleteResult ==
    /\ am.pc = "running"
    /\ \E path \in am.pending, failed \in BOOLEAN :
         LET got == [am EXCEPT !.pending = @ \ {path}]
         IN  am' = IF failed THEN [got EXCEPT !.err = "IOError"] ELSE removeEntry(got, path)
    /\ UNCHANGED <<guardVars, execVars, cleanVars, wlVars, scanVars, ledgerVars, storeVars, sm>>

AnalyzeInit ==
    /\ GuardIdle /\ ExecIdle /\ CleanIdle /\ WlIdle /\ ScanIdle /\ LedgerIdle /\ StoreIdle
    /\ SelectorIdle
    /\ am = NewAnalyzeModel

AnalyzeNext ==
    \/ Analyze_Key
    \/ Analyze_WindowSize
    \/ Analyze_DeleteResult

SpecAnalyze == AnalyzeInit /\ [][AnalyzeNext]_vars

\* C39: every deletion the analyzer starts is of the entry the cursor was
\* on when Backspace was pressed, whatever messages were handled before the
\* confirming Enter.
C39_DeletesMarkedEntry ==
    am.pc # "idle" =>
        \A i \in 1..Len(am.asked) : am.asked[i].sent = am.asked[i].marked

(***************************************************************************)
(* The SelectorModel.  Items are known by their index, 0 to n - 1; Update  *)
(* handles a window size or a key, and View renders the page the model is  *)
(* on.  An index or a slice out of range ends the program with a panic.    *)
(***************************************************************************)
\* the item lists a selector is made with: how many items, which are disabled
SelectorLists ==
    { [n |-> 0, disabled |-> {}], [n |-> 1, disabled |-> {}],
      [n |-> 16, disabled |-> 1..14] }

\* window heights that arrive
SelectorHeights == {12, 24, 30}

\* ui.NewSelectorModel
NewSelectorModel(items) ==
    [pc |-> "running", n |-> items.n, disabled |-> items.disabled, selected |-> {},
     cursor |-> 0, page |-> 0, pageSize |-> 15, width |-> 80, height |-> 24,
     confirmed |-> FALSE, quitting |-> FALSE]

\* SelectorModel.totalPages
totalPages(m) ==
    IF m.n = 0 THEN 1
    ELSE (m.n \div m.pageSize) + (IF m.n % m.pageSize # 0 THEN 1 ELSE 0)

\* SelectorModel.pageStart
pageStart(m) == m.page * m.pageSize

\* SelectorModel.pageEnd
pageEnd(m) ==
    IF pageStart(m) + m.pageSize > m.n THEN m.n ELSE pageStart(m) + m.pageSize

\* Update(tea.WindowSizeMsg)
Selector_WindowSize ==
    /\ sm.pc = "running"
    /\ \E h \in SelectorHeights :
         sm' = [sm EXCEPT !.height = h, !.pageSize = IF h - 8 > 5 THEN h - 8 ELSE @]
    /\ UNCHANGED <<guardVars, execVars, cleanVars, wlVars, scanVars, ledgerVars, storeVars, am>>

\* Update(tea.KeyMsg), the keys that move the cursor
SelectorMove(m, key) ==
    CASE key = "up" ->
             IF m.cursor > 0
             THEN LET up == [m EXCEPT !.cursor = @ - 1]
                  IN  IF up.cursor < pageStart(up) THEN [up EXCEPT !.page = @ - 1] ELSE up
             ELSE [m EXCEPT !.cursor = m.n - 1, !.page = totalPages(m) - 1]
      [] key = "down" ->
             IF m.cursor < m.n - 1
             THEN LET down == [m EXCEPT !.cursor = @ + 1]
                  IN  IF down.cursor >= pageEnd(down) THEN [down EXCEPT !.page = @ + 1] ELSE down
             ELSE [m EXCEPT !.cursor = 0, !.page = 0]
      [] key = "pgup" ->
             IF m.page > 0
             THEN LET up == [m EXCEPT !.page = @ - 1] IN [up EXCEPT !.cursor = pageStart(up)]
             ELSE m
      [] key = "pgdown" ->
             IF m.page < totalPages(m) - 1
             THEN LET down == [m EXCEPT !.page = @ + 1] IN [down EXCEPT !.cursor = pageStart(down)]
             ELSE m

Selector_Move ==
    /\ sm.pc = "running"
    /\ \E key \in {"up", "down", "pgup", "pgdown"} : sm' = SelectorMove(sm, key)
    /\ UNCHANGED <<guardVars, execVars, cleanVars, wlVars, scanVars, ledgerVars, storeVars, am>>

\* Update(tea.KeyMsg), the keys that select: space toggles m.items[m.cursor],
\* a selects every item that is not disabled, n deselects all
SelectorSelect(m, key) ==
    CASE key = " " ->
             IF m.n = 0 THEN m
             ELSE IF m.cursor < 0 \/ m.cursor >= m.n THEN [m EXCEPT !.pc = "panic"]
             ELSE IF m.cursor \in m.disabled THEN m
             ELSE [m EXCEPT !.selected = IF m.cursor \in @ THEN @ \ {m.cursor}
                                         ELSE @ \cup {m.cursor}]
      [] key = "a" -> [m EXCEPT !.selected = @ \cup ((0..(m.n - 1)) \ m.disabled)]
      [] key = "n" -> [m EXCEPT !.selected = {}]

Selector_Select ==
    /\ sm.pc = "running"
    /\ \E key \in {" ", "a", "n"} : sm' = SelectorSelect(sm, key)
    /\ UNCHANGED <<guardVars, execVars, cleanVars, wlVars, scanVars, ledgerVars, storeVars, am>>

\* Update(tea.KeyMsg), the keys that end the program: q quits, enter confirms
Selector_End ==
    /\ sm.pc = "running"
    /\ \E key \in {"q", "enter"} :
         sm' = IF key = "q" THEN [sm EXCEPT !.quitting = TRUE, !.pc = "quit"]
               ELSE [sm EXCEPT !.confirmed = TRUE, !.pc = "quit"]
    /\ UNCHANGED <<guardVars, execVars, cleanVars, wlVars, scanVars, ledgerVars, storeVars, am>>

\* View: m.items[pageStart:pageEnd] panics when the page starts after it ends
Selector_View ==
    /\ sm.pc = "running"
    /\ sm' = IF pageStart(sm) < 0 \/ pageStart(sm) > pageEnd(sm)
             THEN [sm EXCEPT !.pc = "panic"] ELSE sm
    /\ UNCHANGED <<guardVars, execVars, cleanVars, wlVars, scanVars, ledgerVars, storeVars, am>>

SelectorInit ==
    /\ GuardIdle /\ ExecIdle /\ CleanIdle /\ WlIdle /\ ScanIdle /\ LedgerIdle /\ StoreIdle
    /\ AnalyzeIdle
    /\ \E items \in SelectorLists : sm = NewSelectorModel(items)

SelectorNext ==
    \/ Selector_WindowSize
    \/ Selector_Move
    \/ Selector_Select
    \/ Selector_End
    \/ Selector_View

SpecSelector == SelectorInit /\ [][SelectorNext]_vars

\* C40: with items in the list the cursor is on an item and on the page
\* shown, and the page lies within the list; with an empty list the cursor
\* is never negative; no step ends in an access out of range.
C40_CursorOnPage ==
    sm.pc # "idle" =>
        /\ sm.pc # "panic"
        /\ sm.n > 0 => /\ 0 <= sm.cursor /\ sm.cursor < sm.n
                       /\ pageStart(sm) <= sm.cursor /\ sm.cursor < pageEnd(sm)
                       /\ pageEnd(sm) <= sm.n
        /\ sm.n = 0 => sm.cursor >= 0

\* the part of C40 about lists with items
C40_NonEmptyOnPage ==
    (sm.pc # "idle" /\ sm.n > 0) =>
        /\ sm.pc # "panic"
        /\ pageStart(sm) <= sm.cursor /\ sm.cursor < pageEnd(sm)

\* the part of C40 about the empty list
C40_EmptyNotNegative ==
    (sm.pc # "idle" /\ sm.n = 0) => sm.cursor >= 0 /\ sm.pc # "panic"

====
